---- MODULE Spec2Model ----
(***************************************************************************)
(* A model of the request-routing and dispatch engine of the web library:  *)
(* the URI utilities (web_utilities.cpp), the response wrapper with its    *)
(* two latches (web_response), routes and routers (web_route.hpp,          *)
(* web_router.hpp) and the server's dispatcher (web_server).               *)
(*                                                                         *)
(* Strings that the code inspects character by character (URIs, route      *)
(* expressions, path segments) are sequences of one-character strings.     *)
(* Strings that the code only stores and compares (reason phrases, bodies, *)
(* header names) are TLA+ strings.                                         *)
(***************************************************************************)
EXTENDS Integers, Sequences, FiniteSets, TLC

(***************************************************************************)
(* Bounds of the model.                                                    *)
(***************************************************************************)
\* How many response operations user code (middleware, handlers, hooks and
\* the threads they start) performs on one response, in total.
MaxUserOps == 2

\* How many threads started by user code share the response with the worker.
MaxAux == 1

\* The longest generated argument of a utility call, in characters.
MaxPathLen == 3

\* The longest generated request URI, in characters.
MaxUriLen == 6
MaxRequests == 3
MaxWorkers == 2

(***************************************************************************)
(* Characters.                                                             *)
(***************************************************************************)
\* The printable ASCII characters, code 32 first.  A character that cannot
\* be written in a string here stands as a backslash and its code.
Ascii ==
    <<
       " ", "!", "\"", "#", "$", "%", "&", "'", "(", ")", "*", "+", ",", "-", ".", "/",
       "0", "1", "2", "3", "4", "5", "6", "7", "8", "9", ":", ";", "<", "=", ">", "?",
       "@", "A", "B", "C", "D", "E", "F", "G", "H", "I", "J", "K", "L", "M", "N", "O",
       "P", "Q", "R", "S", "T", "U", "V", "W", "X", "Y", "Z", "[", "\\", "]", "^", "_",
       "\\96", "a", "b", "c", "d", "e", "f", "g", "h", "i", "j", "k", "l", "m", "n", "o",
       "p", "q", "r", "s", "t", "u", "v", "w", "x", "y", "z", "{", "|", "}", "~"
    >>

\* static_cast<char>(n) for a value already reduced to 0..255.
Chr(n) ==
    IF n >= 32 /\ n <= 126 THEN Ascii[n - 31] ELSE "\\" \o ToString(n)

HexDigits ==
    <<"0", "1", "2", "3", "4", "5", "6", "7", "8", "9",
      "a", "b", "c", "d", "e", "f", "A", "B", "C", "D", "E", "F">>

IsHexDigit(c) == \E i \in 1..Len(HexDigits) : HexDigits[i] = c

HexVal(c) ==
    LET i == CHOOSE k \in 1..Len(HexDigits) : HexDigits[k] = c
    IN  IF i <= 16 THEN i - 1 ELSE i - 7

IsSpace(c) == c \in {" ", "\t", "\n", "\r"}

\* std::stoi(hex, nullptr, 16) on the two characters c1 c2: leading
\* white space and a sign are skipped, then as many hexadecimal digits as
\* there are; no digit at all raises std::invalid_argument.
stoi16(c1, c2) ==
    IF IsHexDigit(c1)
    THEN [thrown |-> FALSE,
          val |-> IF IsHexDigit(c2) THEN 16 * HexVal(c1) + HexVal(c2) ELSE HexVal(c1)]
    ELSE IF (IsSpace(c1) \/ c1 = "+") /\ IsHexDigit(c2)
    THEN [thrown |-> FALSE, val |-> HexVal(c2)]
    ELSE IF c1 = "-" /\ IsHexDigit(c2)
    THEN [thrown |-> FALSE, val |-> (256 - HexVal(c2)) % 256]
    ELSE [thrown |-> TRUE, val |-> 0]

(***************************************************************************)
(* web_utilities.cpp                                                       *)
(***************************************************************************)
Substr(s, from, to) == [k \in 1..(to - from + 1) |-> s[from + k - 1]]

\* Index of the first occurrence of character c in s at or after from; 0
\* when there is none (std::string::npos).
Find(s, c, from) ==
    IF \E k \in from..Len(s) : s[k] = c
    THEN CHOOSE k \in from..Len(s) : s[k] = c /\ \A j \in from..(k - 1) : s[j] # c
    ELSE 0

RECURSIVE url_decode_from(_, _, _)
url_decode_from(value, i, decoded) ==
    IF i > Len(value) THEN [thrown |-> FALSE, val |-> decoded]
    ELSE IF value[i] = "%"
    THEN IF i + 2 < Len(value) + 1
         THEN LET r == stoi16(value[i + 1], value[i + 2])
              IN  IF r.thrown THEN [thrown |-> TRUE, val |-> <<>>]
                  ELSE url_decode_from(value, i + 3, Append(decoded, Chr(r.val)))
         ELSE url_decode_from(value, i + 1, decoded)
    ELSE url_decode_from(value, i + 1, Append(decoded, value[i]))

\* url_decode: [thrown, val]; thrown when std::stoi raises.
url_decode(value) == url_decode_from(value, 1, <<>>)

\* The code of a character: static_cast<unsigned char>(c).
Ord(c) == CHOOSE n \in 0..255 : Chr(n) = c

\* isalnum in the C locale.
isalnum(c) == Ord(c) \in (48..57) \cup (65..90) \cup (97..122)

\* The characters url_encode leaves as they are.
IsUnreserved(c) == isalnum(c) \/ c \in {"-", "_", ".", "~"}

\* The digit std::hex writes for d, with and without std::uppercase.
UpperHexDigit(d) == IF d > 9 THEN HexDigits[d + 7] ELSE HexDigits[d + 1]
LowerHexDigit(d) == HexDigits[d + 1]

\* A faulty url_encode: std::setw(2) and std::setfill are missing, so a
\* value below 16 is written as one digit.
Hex2_NoPad(n) ==
    IF n < 16 THEN <<UpperHexDigit(n)>>
    ELSE <<UpperHexDigit(n \div 16), UpperHexDigit(n % 16)>>

\* A faulty url_encode: std::uppercase is missing.
Hex2_Lowercase(n) == <<LowerHexDigit(n \div 16), LowerHexDigit(n % 16)>>

\* std::uppercase << std::setw(2) << std::setfill(0) << std::hex << n.
Hex2(n) == <<UpperHexDigit(n \div 16), UpperHexDigit(n % 16)>>

RECURSIVE url_encode_from(_, _, _)
url_encode_from(value, i, escaped) ==
    IF i > Len(value) THEN escaped
    ELSE url_encode_from(value, i + 1,
             IF IsUnreserved(value[i]) THEN Append(escaped, value[i])
             ELSE escaped \o <<"%">> \o Hex2(Ord(value[i])))

url_encode(value) == url_encode_from(value, 1, <<>>)

static_extensions ==
    {
      <<"h", "t", "m", "l">>, <<"h", "t", "m">>, <<"x", "h", "t", "m", "l">>,
      <<"x", "m", "l">>, <<"c", "s", "s">>, <<"s", "c", "s", "s">>, <<"s", "a", "s", "s">>,
      <<"l", "e", "s", "s">>, <<"j", "s">>, <<"m", "j", "s">>, <<"j", "s", "x">>,
      <<"t", "s">>, <<"t", "s", "x">>, <<"p", "n", "g">>, <<"j", "p", "g">>,
      <<"j", "p", "e", "g">>, <<"g", "i", "f">>, <<"b", "m", "p">>, <<"t", "i", "f", "f">>,
      <<"t", "i", "f">>, <<"s", "v", "g">>, <<"w", "e", "b", "p">>, <<"i", "c", "o">>,
      <<"c", "u", "r">>, <<"a", "v", "i", "f">>, <<"w", "o", "f", "f">>, <<"w", "o", "f", "f", "2">>,
      <<"t", "t", "f">>, <<"o", "t", "f">>, <<"e", "o", "t">>, <<"m", "p", "3">>,
      <<"w", "a", "v">>, <<"o", "g", "g">>, <<"m", "4", "a">>, <<"a", "a", "c">>,
      <<"f", "l", "a", "c">>, <<"m", "p", "4">>, <<"w", "e", "b", "m">>, <<"a", "v", "i">>,
      <<"m", "o", "v">>, <<"w", "m", "v">>, <<"f", "l", "v">>, <<"m", "k", "v">>,
      <<"p", "d", "f">>, <<"d", "o", "c">>, <<"d", "o", "c", "x">>, <<"x", "l", "s">>,
      <<"x", "l", "s", "x">>, <<"p", "p", "t">>, <<"p", "p", "t", "x">>, <<"t", "x", "t">>,
      <<"r", "t", "f">>, <<"o", "d", "t">>, <<"o", "d", "s">>, <<"o", "d", "p">>,
      <<"z", "i", "p">>, <<"r", "a", "r">>, <<"7", "z">>, <<"t", "a", "r">>,
      <<"g", "z">>, <<"b", "z", "2">>, <<"j", "s", "o", "n">>, <<"c", "s", "v">>,
      <<"y", "a", "m", "l">>, <<"y", "m", "l">>, <<"t", "o", "m", "l">>, <<"m", "a", "n", "i", "f", "e", "s", "t">>,
      <<"w", "e", "b", "m", "a", "n", "i", "f", "e", "s", "t">>, <<"m", "a", "p">>,
      <<"h", "t", "a", "c", "c", "e", "s", "s">>, <<"s", "w", "f">>, <<"e", "p", "s">>,
      <<"a", "i">>, <<"p", "s", "d">>, <<"s", "k", "e", "t", "c", "h">>
    }

\* The text after the last dot of the uri, the empty string when it holds none.
get_file_extension_from_uri(uri) ==
    IF \E k \in 1..Len(uri) : uri[k] = "."
    THEN LET dot_pos == CHOOSE k \in 1..Len(uri) :
                            uri[k] = "." /\ \A j \in (k + 1)..Len(uri) : uri[j] # "."
         IN  Substr(uri, dot_pos + 1, Len(uri))
    ELSE <<>>

\* Index of the first two consecutive dots in s, 0 when there is none.
FindDotDot(s) ==
    IF \E k \in 1..(Len(s) - 1) : s[k] = "." /\ s[k + 1] = "."
    THEN CHOOSE k \in 1..(Len(s) - 1) :
             /\ s[k] = "." /\ s[k + 1] = "."
             /\ \A j \in 1..(k - 1) : ~(s[j] = "." /\ s[j + 1] = ".")
    ELSE 0

\* A faulty sanitize_path: an if in place of the while, so only the
\* first occurrence is erased.
sanitize_path_Once(path) ==
    LET pos == FindDotDot(path)
    IN  IF pos = 0 THEN path
        ELSE Substr(path, 1, pos - 1) \o Substr(path, pos + 2, Len(path))

\* A faulty sanitize_path: erase(pos, 3) takes the character after the
\* two dots as well.
RECURSIVE sanitize_path_EraseThree(_)
sanitize_path_EraseThree(path) ==
    LET pos == FindDotDot(path)
    IN  IF pos = 0 THEN path
        ELSE sanitize_path_EraseThree(Substr(path, 1, pos - 1)
                                      \o Substr(path, pos + 3, Len(path)))

RECURSIVE sanitize_path(_)
sanitize_path(path) ==
    LET pos == FindDotDot(path)
    IN  IF pos = 0 THEN path
        ELSE sanitize_path(Substr(path, 1, pos - 1) \o Substr(path, pos + 2, Len(path)))

is_uri_static(uri) == get_file_extension_from_uri(uri) \in static_extensions

get_path(uri) ==
    LET pos == Find(uri, "?", 1)
    IN  IF pos = 0 THEN uri ELSE Substr(uri, 1, pos - 1)

\* The lambda normalize of match_path.
RECURSIVE SkipSlashes(_, _)
SkipSlashes(s, start) ==
    IF start <= Len(s) /\ s[start] = "/" THEN SkipSlashes(s, start + 1) ELSE start

RECURSIVE TrimSlashes(_, _, _)
TrimSlashes(s, start, end) ==
    IF end > start /\ s[end] = "/" THEN TrimSlashes(s, start, end - 1) ELSE end

\* start and end are 1-based and inclusive here: the [start, end) of the code.
normalize(s) ==
    IF s = <<>> THEN <<>>
    ELSE IF s = <<"/">> THEN <<"/">>
    ELSE LET start == SkipSlashes(s, 1)
             end == TrimSlashes(s, start, Len(s))
         IN  IF start > end THEN <<>> ELSE Substr(s, start, end)

\* The lambda split_segments of match_path.
RECURSIVE split_from(_, _, _)
split_from(s, pos, segs) ==
    IF pos > Len(s) THEN segs
    ELSE LET next == Find(s, "/", pos)
         IN  IF next = 0 THEN Append(segs, Substr(s, pos, Len(s)))
             ELSE split_from(s, next + 1, Append(segs, Substr(s, pos, next - 1)))

split_segments(s) == IF s = <<>> THEN <<>> ELSE split_from(s, 1, <<>>)

RECURSIVE JoinFrom(_, _, _)
JoinFrom(segs, k, remainder) ==
    IF k > Len(segs) THEN remainder
    ELSE JoinFrom(segs, k + 1,
                  IF remainder # <<>> THEN remainder \o <<"/">> \o segs[k]
                  ELSE segs[k])

NoMatch == [thrown |-> FALSE, matched |-> FALSE, params |-> <<>>]
Matched(params) == [thrown |-> FALSE, matched |-> TRUE, params |-> params]
MatchThrown == [thrown |-> TRUE, matched |-> FALSE, params |-> <<>>]

\* A faulty match_path: the check for path segments left over after the
\* expression is exhausted is missing.
RECURSIVE match_segments_IgnoresLeftover(_, _, _, _, _)
match_segments_IgnoresLeftover(expr_segs, path_segs, ei, pi, path_params) ==
    IF ei <= Len(expr_segs) /\ pi <= Len(path_segs)
    THEN LET es == expr_segs[ei]
             ps == path_segs[pi]
         IN  IF es = <<"*">>
             THEN LET remainder == JoinFrom(path_segs, pi, <<>>)
                      d == url_decode(remainder)
                  IN  IF remainder = <<>> THEN Matched(path_params)
                      ELSE IF d.thrown THEN MatchThrown
                      ELSE Matched(Append(path_params, <<(<<"*">>), d.val>>))
             ELSE IF es # <<>> /\ es[1] = ":"
             THEN LET d == url_decode(ps)
                  IN  IF d.thrown THEN MatchThrown
                      ELSE match_segments_IgnoresLeftover(expr_segs, path_segs, ei + 1, pi + 1,
                               Append(path_params, <<Substr(es, 2, Len(es)), d.val>>))
             ELSE IF es # ps THEN NoMatch
             ELSE match_segments_IgnoresLeftover(expr_segs, path_segs, ei + 1, pi + 1,
                                                 path_params)
    ELSE IF ei <= Len(expr_segs)
    THEN IF ei = Len(expr_segs) /\ expr_segs[ei] = <<"*">>
         THEN Matched(path_params) ELSE NoMatch
    ELSE Matched(path_params)

\* A faulty match_path: expression segments left over after the path is
\* exhausted are taken for a match.
RECURSIVE match_segments_PrefixOnly(_, _, _, _, _)
match_segments_PrefixOnly(expr_segs, path_segs, ei, pi, path_params) ==
    IF ei <= Len(expr_segs) /\ pi <= Len(path_segs)
    THEN LET es == expr_segs[ei]
             ps == path_segs[pi]
         IN  IF es = <<"*">>
             THEN LET remainder == JoinFrom(path_segs, pi, <<>>)
                      d == url_decode(remainder)
                  IN  IF remainder = <<>> THEN Matched(path_params)
                      ELSE IF d.thrown THEN MatchThrown
                      ELSE Matched(Append(path_params, <<(<<"*">>), d.val>>))
             ELSE IF es # <<>> /\ es[1] = ":"
             THEN LET d == url_decode(ps)
                  IN  IF d.thrown THEN MatchThrown
                      ELSE match_segments_PrefixOnly(expr_segs, path_segs, ei + 1, pi + 1,
                               Append(path_params, <<Substr(es, 2, Len(es)), d.val>>))
             ELSE IF es # ps THEN NoMatch
             ELSE match_segments_PrefixOnly(expr_segs, path_segs, ei + 1, pi + 1,
                                            path_params)
    ELSE IF ei <= Len(expr_segs)
    THEN Matched(path_params)
    ELSE IF pi <= Len(path_segs) THEN NoMatch
    ELSE Matched(path_params)

\* The while loop of match_path and the checks after it.
RECURSIVE match_segments(_, _, _, _, _)
match_segments(expr_segs, path_segs, ei, pi, path_params) ==
    IF ei <= Len(expr_segs) /\ pi <= Len(path_segs)
    THEN LET es == expr_segs[ei]
             ps == path_segs[pi]
         IN  IF es = <<"*">>
             THEN LET remainder == JoinFrom(path_segs, pi, <<>>)
                      d == url_decode(remainder)
                  IN  IF remainder = <<>> THEN Matched(path_params)
                      ELSE IF d.thrown THEN MatchThrown
                      ELSE Matched(Append(path_params, <<(<<"*">>), d.val>>))
             ELSE IF es # <<>> /\ es[1] = ":"
             THEN LET d == url_decode(ps)
                  IN  IF d.thrown THEN MatchThrown
                      ELSE match_segments(expr_segs, path_segs, ei + 1, pi + 1,
                               Append(path_params, <<Substr(es, 2, Len(es)), d.val>>))
             ELSE IF es # ps THEN NoMatch
             ELSE match_segments(expr_segs, path_segs, ei + 1, pi + 1, path_params)
    ELSE IF ei <= Len(expr_segs)
    THEN IF ei = Len(expr_segs) /\ expr_segs[ei] = <<"*">>
         THEN Matched(path_params) ELSE NoMatch
    ELSE IF pi <= Len(path_segs) THEN NoMatch
    ELSE Matched(path_params)

\* match_path: [thrown, matched, params]; thrown when url_decode raises.
match_path(expression, path) ==
    IF path = expression THEN Matched(<<>>)
    ELSE LET expr == normalize(expression)
             p == normalize(path)
         IN  IF expr = <<>> /\ p = <<>> THEN Matched(<<>>)
             ELSE match_segments(split_segments(expr), split_segments(p), 1, 1, <<>>)

\* mime_types: pairs of (extension, MIME type).
mime_types ==
    {
      <<<<"h", "t", "m", "l">>, "text/html">>,
      <<<<"h", "t", "m">>, "text/html">>,
      <<<<"x", "h", "t", "m", "l">>, "application/xhtml+xml">>,
      <<<<"x", "m", "l">>, "application/xml">>,
      <<<<"c", "s", "s">>, "text/css">>,
      <<<<"s", "c", "s", "s">>, "text/x-scss">>,
      <<<<"s", "a", "s", "s">>, "text/x-sass">>,
      <<<<"l", "e", "s", "s">>, "text/x-less">>,
      <<<<"j", "s">>, "application/javascript">>,
      <<<<"m", "j", "s">>, "application/javascript">>,
      <<<<"j", "s", "x">>, "text/jsx">>,
      <<<<"t", "s">>, "application/typescript">>,
      <<<<"t", "s", "x">>, "text/tsx">>,
      <<<<"p", "n", "g">>, "image/png">>,
      <<<<"j", "p", "g">>, "image/jpeg">>,
      <<<<"j", "p", "e", "g">>, "image/jpeg">>,
      <<<<"g", "i", "f">>, "image/gif">>,
      <<<<"b", "m", "p">>, "image/bmp">>,
      <<<<"t", "i", "f", "f">>, "image/tiff">>,
      <<<<"t", "i", "f">>, "image/tiff">>,
      <<<<"s", "v", "g">>, "image/svg+xml">>,
      <<<<"w", "e", "b", "p">>, "image/webp">>,
      <<<<"i", "c", "o">>, "image/x-icon">>,
      <<<<"c", "u", "r">>, "image/x-icon">>,
      <<<<"a", "v", "i", "f">>, "image/avif">>,
      <<<<"w", "o", "f", "f">>, "font/woff">>,
      <<<<"w", "o", "f", "f", "2">>, "font/woff2">>,
      <<<<"t", "t", "f">>, "font/ttf">>,
      <<<<"o", "t", "f">>, "font/otf">>,
      <<<<"e", "o", "t">>, "application/vnd.ms-fontobject">>,
      <<<<"m", "p", "3">>, "audio/mpeg">>,
      <<<<"w", "a", "v">>, "audio/wav">>,
      <<<<"o", "g", "g">>, "audio/ogg">>,
      <<<<"m", "4", "a">>, "audio/mp4">>,
      <<<<"a", "a", "c">>, "audio/aac">>,
      <<<<"f", "l", "a", "c">>, "audio/flac">>,
      <<<<"m", "p", "4">>, "video/mp4">>,
      <<<<"w", "e", "b", "m">>, "video/webm">>,
      <<<<"a", "v", "i">>, "video/x-msvideo">>,
      <<<<"m", "o", "v">>, "video/quicktime">>,
      <<<<"w", "m", "v">>, "video/x-ms-wmv">>,
      <<<<"f", "l", "v">>, "video/x-flv">>,
      <<<<"m", "k", "v">>, "video/x-matroska">>,
      <<<<"p", "d", "f">>, "application/pdf">>,
      <<<<"d", "o", "c">>, "application/msword">>,
      <<<<"d", "o", "c", "x">>, "application/vnd.openxmlformats-officedocument.wordprocessingml.document">>,
      <<<<"x", "l", "s">>, "application/vnd.ms-excel">>,
      <<<<"x", "l", "s", "x">>, "application/vnd.openxmlformats-officedocument.spreadsheetml.sheet">>,
      <<<<"p", "p", "t">>, "application/vnd.ms-powerpoint">>,
      <<<<"p", "p", "t", "x">>, "application/vnd.openxmlformats-officedocument.presentationml.presentation">>,
      <<<<"t", "x", "t">>, "text/plain">>,
      <<<<"r", "t", "f">>, "application/rtf">>,
      <<<<"o", "d", "t">>, "application/vnd.oasis.opendocument.text">>,
      <<<<"o", "d", "s">>, "application/vnd.oasis.opendocument.spreadsheet">>,
      <<<<"o", "d", "p">>, "application/vnd.oasis.opendocument.presentation">>,
      <<<<"z", "i", "p">>, "application/zip">>,
      <<<<"r", "a", "r">>, "application/vnd.rar">>,
      <<<<"7", "z">>, "application/x-7z-compressed">>,
      <<<<"t", "a", "r">>, "application/x-tar">>,
      <<<<"g", "z">>, "application/gzip">>,
      <<<<"b", "z", "2">>, "application/x-bzip2">>,
      <<<<"j", "s", "o", "n">>, "application/json">>,
      <<<<"c", "s", "v">>, "text/csv">>,
      <<<<"y", "a", "m", "l">>, "application/x-yaml">>,
      <<<<"y", "m", "l">>, "application/x-yaml">>,
      <<<<"t", "o", "m", "l">>, "application/toml">>,
      <<<<"m", "a", "n", "i", "f", "e", "s", "t">>, "text/cache-manifest">>,
      <<<<"w", "e", "b", "m", "a", "n", "i", "f", "e", "s", "t">>, "application/manifest+json">>,
      <<<<"m", "a", "p">>, "application/json">>,
      <<<<"h", "t", "a", "c", "c", "e", "s", "s">>, "text/plain">>,
      <<<<"s", "w", "f">>, "application/x-shockwave-flash">>,
      <<<<"e", "p", "s">>, "application/postscript">>
    }

get_mime_type_from_extension(extension) ==
    IF \E p \in mime_types : p[1] = extension
    THEN (CHOOSE p \in mime_types : p[1] = extension)[2]
    ELSE "application/octet-stream"

(***************************************************************************)
(* The known methods (web_methods.hpp) and unknown_method.                 *)
(***************************************************************************)
\* A faulty table of methods: PATCH was left out.
methods_WithoutPatch == {"GET", "POST", "PUT", "DELETE", "HEAD", "OPTIONS"}

methods == {"GET", "POST", "PUT", "DELETE", "PATCH", "HEAD", "OPTIONS"}

unknown_method(method) == method \notin methods

(***************************************************************************)
(* exit_code (web_types.hpp).  A handler is a std::function returning the  *)
(* enum; a value cast from another integer is INVALID here.                *)
(***************************************************************************)
CONTINUE == "CONTINUE"
EXIT == "EXIT"
ERROR == "ERROR"
INVALID == "INVALID"
ExitCodes == {CONTINUE, EXIT, ERROR, INVALID}

(***************************************************************************)
(* web_exception and the other errors that cross the dispatcher.           *)
(***************************************************************************)
\* web_exception(message, type, function, status_code, status_message).
web_exception(code, reason) == [kind |-> "web_exception", code |-> code, reason |-> reason]

\* Any other error derived from std::exception (std::runtime_error, ...).
std_exception == [kind |-> "std_exception", code |-> 0, reason |-> ""]

NoException == [kind |-> "none", code |-> 0, reason |-> ""]

\* What user code throws in the model.
UserExceptions == {web_exception(404, "Not Found"), std_exception}

(***************************************************************************)
(* The server's configuration, fixed before listen(): two routers in the   *)
(* shape of the example application (a router with one middleware and the *)
(* /stress routes, a router with two middleware and the index route) and   *)
(* one static directory.  What the middleware and handlers do is not fixed:*)
(* every invocation is user code that may do anything (see UserOp).        *)
(***************************************************************************)
Route(method, expression, nhandlers) ==
    [method |-> method, expression |-> expression, handlers |-> nhandlers]

routers ==
    << [middlewares |-> 1,
        routes |-> << Route("GET", <<"/", "s", "t", "r", "e", "s", "s">>, 1),
                      Route("GET", <<"/", "s", "t", "r", "e", "s", "s", "/", ":", "i", "d", "/", ":", "n", "a", "m", "e">>, 1),
                      Route("GET", <<"/", "s", "t", "r", "e", "s", "s", "/", ":", "i", "d">>, 2),
                      Route("POST", <<"/", "s", "t", "r", "e", "s", "s", "/", "p", "o", "s", "t">>, 1) >>],
       [middlewares |-> 2,
        routes |-> << Route("GET", <<"/", "s", "t", "r", "e", "s", "s", "/", ":", "i", "d">>, 1),
                      Route("PUT", <<"/", "s", "t", "r", "e", "s", "s", "/", ":", "i", "d">>, 1) >>] >>

\* The static directory the example application registers.
ExampleStaticDirectories == << <<"s", "t", "a", "t", "i", "c">> >>

\* The file system: the paths under which a file opens, with its content.
\* Two directories hold an app.js, one of them an s.js as well.
Files ==
    { <<"s", "t", "a", "t", "i", "c", "/", "a", "p", "p", ".", "j", "s">>,
      <<"p", "u", "b", "/", "a", "p", "p", ".", "j", "s">>,
      <<"p", "u", "b", "/", "s", ".", "j", "s">> }

FileContent(file_path) ==
    IF file_path = <<"s", "t", "a", "t", "i", "c", "/", "a", "p", "p", ".", "j", "s">>
    THEN "let x;"
    ELSE IF file_path = <<"p", "u", "b", "/", "a", "p", "p", ".", "j", "s">>
    THEN "let y;"
    ELSE "let z;"

\* The requests the transport delivers in the model.
Requests ==
    { [method |-> "GET", uri |-> <<"/", "s", "t", "r", "e", "s", "s", "/", "7">>],
      [method |-> "GET", uri |-> <<"/", "s", "t", "r", "e", "s", "s", "/", "7", "/", "f", "o", "o">>],
      [method |-> "PUT", uri |-> <<"/", "s", "t", "r", "e", "s", "s", "/", "7">>],
      [method |-> "GET", uri |-> <<"/", "n", "o", "p", "e">>],
      [method |-> "GET", uri |-> <<"/", "s", "t", "r", "e", "s", "s", "/", "%", "z", "z">>],
      [method |-> "GET", uri |-> <<"/", "a", "p", "p", ".", "j", "s">>],
      [method |-> "GET", uri |-> <<"/", ".", ".", "/", "a", "p", "p", ".", "j", "s">>],
      [method |-> "BREW", uri |-> <<"/", "s", "t", "r", "e", "s", "s">>],
      [method |-> "PATCH", uri |-> <<"/", "s", "t", "r", "e", "s", "s">>] }

\* The status the transport's response carries when it is handed over.
TransportStatuses == { <<200, "OK">> }

(***************************************************************************)
(* Threads.  The transport thread runs on_request_received, a worker of    *)
(* the pool runs request_handler, and user code may start further threads  *)
(* that keep the shared_ptr to the response.                               *)
(***************************************************************************)
TransportThread == <<"transport", 0>>
WorkerThread == <<"worker", 0>>
AuxThreads == {<<"aux", i>> : i \in 1..MaxAux}
Threads == {TransportThread, WorkerThread} \cup AuxThreads

VARIABLES
    unhandled_exception_callback, \* null or user: what use_error registered
    handle_unmatched_route,       \* default or user
    static_directories,           \* the directories use_static registered, in order
    request,                      \* the web_request: method, uri, path_params
    response,                     \* the wrapped http_response: status, headers, body
    did_send,                     \* web_response::did_send
    did_end,                      \* web_response::did_end
    tasks,                        \* the worker pool's queue
    stack,                        \* per thread: the labels still to run, current first
    frame,                        \* locals of request_handler and of the router it calls
    site,                         \* the user code the dispatcher is inside of
    opsLeft,                      \* response operations user code may still perform
    transport,                    \* what the transport saw: its primitives, the message sent
    history,                      \* what the dispatcher invoked, in order
    call,                         \* a call of a utility function: its name and arguments
    ret,                          \* what that call returned
    pool                          \* the worker pool with several requests: what was
                                  \* enqueued, started and finished, and each worker's task

vars == <<unhandled_exception_callback, handle_unmatched_route, static_directories,
          request, response,
          did_send, did_end, tasks, stack, frame, site, opsLeft, transport, history,
          call, ret, pool>>

config == <<unhandled_exception_callback, handle_unmatched_route, static_directories>>

utility == <<call, ret, pool>>

(***************************************************************************)
(* web_response: the operations on the wrapped response.  Each holds       *)
(* modify_headers_mutex from its first to its last access, so each is one  *)
(* atomic step.                                                            *)
(***************************************************************************)
HEADER_CONTENT_TYPE == "Content-Type"
HEADER_CONTENT_LENGTH == "Content-Length"
HEADER_CONNECTION == "Connection"

Digit(d) == <<"0", "1", "2", "3", "4", "5", "6", "7", "8", "9">>[d + 1]

\* std::to_string of a size.
RECURSIVE to_string(_)
to_string(n) == IF n < 10 THEN Digit(n) ELSE to_string(n \div 10) \o Digit(n % 10)

\* http_response::get_header(name): the values of the headers named name.
get_header(r, name) == SelectSeq(r.headers, LAMBDA h : h[1] = name)

add_header(r, key, value) == [r EXCEPT !.headers = Append(@, <<key, value>>)]

set_status(r, status_code, status_message) ==
    [r EXCEPT !.status = <<status_code, status_message>>]

set_body(r, body) == [r EXCEPT !.body = body]

set_content_type(r, content_type) == add_header(r, HEADER_CONTENT_TYPE, content_type)

add_cookie(r, name, cookie, attributes) ==
    LET value == IF attributes # "" THEN cookie \o "; " \o attributes ELSE cookie
    IN  add_header(r, "Set-Cookie", name \o "=" \o value)

\* The locked block of send_json, send_html and send_text; send() follows.
TypedSenderBlock(r, mime, data) ==
    add_header(set_body(add_header(r, HEADER_CONTENT_TYPE, mime), data),
               HEADER_CONTENT_LENGTH, to_string(Len(data)))

\* A faulty send(): a default Content-Type is added as well when the
\* response has none.
SendDefaultsBlock_WithContentType(r) ==
    LET r1 == IF get_header(r, HEADER_CONNECTION) = <<>>
              THEN add_header(r, HEADER_CONNECTION, "close") ELSE r
        r2 == IF get_header(r1, HEADER_CONTENT_TYPE) = <<>>
              THEN add_header(r1, HEADER_CONTENT_TYPE, "text/plain") ELSE r1
    IN  IF get_header(r2, HEADER_CONTENT_LENGTH) = <<>>
        THEN add_header(r2, HEADER_CONTENT_LENGTH, to_string(Len(r2.body)))
        ELSE r2

\* The locked block of send(): the defaults for the headers still missing.
SendDefaultsBlock(r) ==
    LET r1 == IF get_header(r, HEADER_CONNECTION) = <<>>
              THEN add_header(r, HEADER_CONNECTION, "close") ELSE r
    IN  IF get_header(r1, HEADER_CONTENT_LENGTH) = <<>>
        THEN add_header(r1, HEADER_CONTENT_LENGTH, to_string(Len(r1.body)))
        ELSE r1

(***************************************************************************)
(* User code.  A middleware, a route handler, a registered unmatched-route *)
(* handler or error hook, and every thread one of them starts, performs    *)
(* response operations out of UserOps.                                     *)
(***************************************************************************)
Op(name, code, text) == [op |-> name, code |-> code, text |-> text]

Mutators ==
    { Op("set_status", 401, "Unauthorized"),
      Op("set_body", 0, "a") }

Senders ==
    { Op("send", 0, ""),
      Op("send_text", 0, "Unauthorized access") }

UserOps == Mutators \cup Senders

\* The response after the locked block of operation o.
Apply(r, o) ==
    CASE o.op = "set_status" -> set_status(r, o.code, o.text)
      [] o.op = "set_body" -> set_body(r, o.text)
      [] o.op = "add_header" -> add_header(r, o.text, "1")
      [] o.op = "set_content_type" -> set_content_type(r, o.text)
      [] o.op = "add_cookie" -> add_cookie(r, o.text, "42", "HttpOnly")
      [] o.op = "send_text" -> TypedSenderBlock(r, "text/plain", o.text)
      [] o.op = "send_json" -> TypedSenderBlock(r, "application/json", o.text)
      [] o.op = "send_html" -> TypedSenderBlock(r, "text/html", o.text)
      [] o.op = "send" -> r

(***************************************************************************)
(* Labels.  A thread's stack holds the steps it still has to run, the      *)
(* current one first; a label is a pair (name, operation).                 *)
(***************************************************************************)
NoOp == Op("", 0, "")
L(name) == <<name, NoOp>>
\* The call of a response operation: its locked block, then send() if it
\* is one of the senders.
Call(o) ==
    IF o.op = "send" THEN <<L("send")>>
    ELSE IF o.op \in {"send_text", "send_json", "send_html"}
    THEN << <<"locked_block", o>>, L("send") >>
    ELSE << <<"locked_block", o>> >>

Top(t) == IF stack[t] = <<>> THEN "" ELSE Head(stack[t])[1]
TopOp(t) == Head(stack[t])[2]

\* The stack after the current label of t is replaced by the labels ls.
Continue(t, ls) == [stack EXCEPT ![t] = ls \o Tail(@)]
\* The stack of t after an exception unwinds it to the labels ls.
Unwind(t, ls) == [stack EXCEPT ![t] = ls]

NoSite == [kind |-> "none", from |-> "", cause |-> NoException]
Site(kind, from) == [kind |-> kind, from |-> from, cause |-> NoException]

NoFrame ==
    [handled |-> FALSE, router |-> 0, middleware |-> 0, route |-> 0, handler |-> 0,
     result |-> "", e |-> NoException, thrower |-> "", state |-> "none",
     file_paths |-> <<>>]

NoResponse == [status |-> <<0, "">>, headers |-> <<>>, body |-> ""]

\* web_response's constructor: the wrapper takes the transport's response
\* over by move.  The set_status(200, "OK") in its body names the
\* constructor's parameter, which hides the member: it writes to the
\* moved-from object, not to the wrapper's response.
web_response_ctor(transport_response) == transport_response

\* fn(a, b) is called; of names the function whose result a is, when user
\* code passes a result on, and b is then the argument of that function.
NoCall == [fn |-> "", a |-> <<>>, b |-> <<>>, of |-> ""]
Pending == [done |-> FALSE, thrown |-> FALSE, matched |-> FALSE, val |-> <<>>]

\* The server after construction and registration, before a request.
InitServer ==
    /\ unhandled_exception_callback \in {"null", "user"}
    /\ handle_unmatched_route \in {"default", "user"}
    /\ request = [method |-> "", uri |-> <<>>, path_params |-> <<>>]
    /\ response = NoResponse
    /\ did_send = FALSE
    /\ did_end = FALSE
    /\ tasks = <<>>
    /\ stack = [t \in Threads |->
                  IF t = TransportThread THEN <<L("on_request_received")>>
                  ELSE IF t = WorkerThread THEN <<L("take")>>
                  ELSE <<>>]
    /\ frame = NoFrame
    /\ site = NoSite
    /\ opsLeft = MaxUserOps
    /\ transport = [events |-> <<>>, wire |-> NoResponse]
    /\ history = [middleware |-> <<>>, match |-> <<>>, set_path_params |-> <<>>,
                  route |-> <<>>, handler |-> <<>>,
                  hook |-> <<>>, unmatched |-> 0, enqueued |-> 0, started |-> 0,
                  sent_by |-> <<>>, ended_by |-> <<>>, at_latch |-> NoResponse,
                  at_site |-> "none", aux_ops |-> 0, user_ran |-> FALSE,
                  raised |-> NoException, route_result |-> <<>>, send_raised |-> FALSE]

\* The worker pool before any request: every worker idle.
NoTask == 0
Workers == 1..MaxWorkers
EmptyPool ==
    [enqueued |-> <<>>, started |-> <<>>, finished |-> <<>>,
     running |-> [w \in Workers |-> NoTask]]

Init ==
    /\ InitServer
    /\ static_directories = ExampleStaticDirectories
    /\ call = NoCall
    /\ ret = Pending
    /\ pool = EmptyPool

(***************************************************************************)
(* web_response::send and web_response::end, step by step.                 *)
(***************************************************************************)
\* A faulty send(): the latch is written but its old value is not read,
\* so every caller goes on to transmit.
SendExchange_NoLatch(t) ==
    /\ Top(t) = "send"
    /\ did_send' = TRUE
    /\ stack' = Continue(t, <<L("send_defaults")>>)
    /\ history' = [history EXCEPT !.sent_by = Append(@, t),
                                  !.at_latch = response,
                                  !.at_site = site.kind]
    /\ UNCHANGED <<config, utility, request, response, did_end, tasks, frame, site, opsLeft, transport>>

\* did_send.exchange(true): the caller that reads false goes on.
SendExchange(t) ==
    /\ Top(t) = "send"
    /\ did_send' = TRUE
    /\ IF did_send
       THEN /\ stack' = Continue(t, <<>>)
            /\ UNCHANGED history
       ELSE /\ stack' = Continue(t, <<L("send_defaults")>>)
            /\ history' = [history EXCEPT !.sent_by = Append(@, t),
                                          !.at_latch = response,
                                          !.at_site = site.kind]
    /\ UNCHANGED <<config, utility, request, response, did_end, tasks, frame, site, opsLeft, transport>>

\* The block of send() under modify_headers_mutex.
SendDefaults(t) ==
    /\ Top(t) = "send_defaults"
    /\ response' = SendDefaultsBlock(response)
    /\ stack' = Continue(t, <<L("send_transport")>>)
    /\ UNCHANGED <<config, utility, request, did_send, did_end, tasks, frame, site, opsLeft,
                   transport, history>>

\* A faulty send(): the catch block logs the transport's error and does
\* not call end().
TransportSend_NoEnd(t) ==
    /\ Top(t) = "send_transport"
    /\ transport' = [events |-> Append(transport.events, "send"), wire |-> response]
    /\ \E raised \in BOOLEAN :
           /\ stack' = Continue(t, <<>>)
           /\ history' = [history EXCEPT !.send_raised = @ \/ raised]
    /\ UNCHANGED <<config, utility, request, response, did_send, did_end, tasks, frame, site,
                   opsLeft>>

\* response.send() under send_response_mutex; when the transport raises,
\* the catch block logs and calls end().
TransportSend(t) ==
    /\ Top(t) = "send_transport"
    /\ transport' = [events |-> Append(transport.events, "send"), wire |-> response]
    /\ \E raised \in BOOLEAN :
           /\ stack' = Continue(t, IF raised THEN <<L("end")>> ELSE <<>>)
           /\ history' = [history EXCEPT !.send_raised = @ \/ raised]
    /\ UNCHANGED <<config, utility, request, response, did_send, did_end, tasks, frame, site,
                   opsLeft>>

\* did_end.exchange(true).
EndExchange(t) ==
    /\ Top(t) = "end"
    /\ did_end' = TRUE
    /\ IF did_end
       THEN /\ stack' = Continue(t, <<>>)
            /\ UNCHANGED history
       ELSE /\ stack' = Continue(t, <<L("end_transport")>>)
            /\ history' = [history EXCEPT !.ended_by = Append(@, t)]
    /\ UNCHANGED <<config, utility, request, response, did_send, tasks, frame, site, opsLeft, transport>>

\* response.end() under end_response_mutex; an error it raises is logged.
TransportEnd(t) ==
    /\ Top(t) = "end_transport"
    /\ transport' = [transport EXCEPT !.events = Append(@, "end")]
    /\ stack' = Continue(t, <<>>)
    /\ UNCHANGED <<config, utility, request, response, did_send, did_end, tasks, frame, site,
                   opsLeft, history>>

\* The locked block of a response operation the dispatcher itself calls.
LockedBlock(t) ==
    /\ Top(t) = "locked_block"
    /\ response' = Apply(response, TopOp(t))
    /\ stack' = Continue(t, <<>>)
    /\ UNCHANGED <<config, utility, request, did_send, did_end, tasks, frame, site, opsLeft,
                   transport, history>>

(***************************************************************************)
(* User code.                                                              *)
(***************************************************************************)
\* User code on the dispatcher's thread t calls a response operation.
UserOp(t, o) ==
    /\ Top(t) = "user"
    /\ opsLeft > 0
    /\ opsLeft' = opsLeft - 1
    /\ response' = Apply(response, o)
    /\ stack' = [stack EXCEPT ![t] = (IF o \in Senders THEN <<L("send")>> ELSE <<>>) \o @]
    /\ UNCHANGED <<config, utility, request, did_send, did_end, tasks, frame, site, transport, history>>

\* A thread that user code started calls a response operation.
AuxOp(t, o) ==
    /\ t \in AuxThreads
    /\ history.user_ran
    /\ stack[t] = <<>>
    /\ opsLeft > 0
    /\ opsLeft' = opsLeft - 1
    /\ response' = Apply(response, o)
    /\ stack' = [stack EXCEPT ![t] = IF o \in Senders THEN <<L("send")>> ELSE <<>>]
    /\ history' = [history EXCEPT !.aux_ops = @ + 1]
    /\ UNCHANGED <<config, utility, request, did_send, did_end, tasks, frame, site, transport>>

\* User code that was handed an exit_code to return (a middleware, a route
\* handler) returns code; a hook or the unmatched-route handler returns
\* and its value is not read.
UserReturn(t, code) ==
    /\ Top(t) = "user"
    /\ site.kind \in {"middleware", "handler"} \/ code = EXIT
    /\ stack' = Continue(t, <<>>)
    /\ site' = NoSite
    /\ frame' = IF site.kind \in {"middleware", "handler"}
                THEN [frame EXCEPT !.result = code] ELSE frame
    /\ history' =
         CASE site.kind = "middleware" ->
                [history EXCEPT !.middleware[Len(history.middleware)].result = code,
                                !.middleware[Len(history.middleware)].left = response]
           [] site.kind = "handler" ->
                [history EXCEPT !.handler[Len(history.handler)].result = code]
           [] OTHER -> history
    /\ UNCHANGED <<config, utility, request, response, did_send, did_end, tasks, opsLeft, transport>>

\* A faulty web_router::handle_request: the catch blocks raise a new 500
\* web_exception instead of rethrowing what they caught.
Rethrow_As500(e) == web_exception(500, "Internal Server Error")

\* The catch blocks of web_router::handle_request: the error is logged
\* and rethrown with throw; which raises the caught object again.
Rethrow(e) == e

\* User code raises e.  Inside request_handler's try block (the routers,
\* the unmatched-route handler, serve_static and its catch block) the
\* router logs and rethrows and request_handler's catch block takes it.
\* A hook called from a catch block of request_handler or of
\* on_request_received is outside every try block: the error leaves the
\* function.
UserThrow(t, e) ==
    /\ Top(t) = "user"
    /\ site' = NoSite
    /\ history' =
         CASE site.kind = "middleware" ->
                [history EXCEPT !.middleware[Len(history.middleware)].result = "THROW",
                                !.raised = e]
           [] site.kind = "handler" ->
                [history EXCEPT !.handler[Len(history.handler)].result = "THROW",
                                !.raised = e]
           [] OTHER -> [history EXCEPT !.raised = e]
    /\ IF site.kind \in {"middleware", "handler", "unmatched"}
          \/ (site.kind = "hook" /\ site.from = "serve_static")
       THEN /\ stack' = Unwind(t, <<L("catch")>>)
            /\ frame' = [frame EXCEPT
                            !.e = IF site.kind \in {"middleware", "handler"}
                                  THEN Rethrow(e) ELSE e,
                            !.thrower = site.kind]
       ELSE /\ stack' = Unwind(t, <<>>)
            /\ frame' = [frame EXCEPT !.e = e,
                                      !.state = IF site.from = "request_handler"
                                                THEN "escaped" ELSE "enqueue_escaped"]
    /\ UNCHANGED <<config, utility, request, response, did_send, did_end, tasks, opsLeft, transport>>

(***************************************************************************)
(* web_server::on_unhandled_exception(req, res, e), called on thread t     *)
(* from the function from while the response is r; the labels rest are     *)
(* what the caller runs after it returns.  cause is the error the caller   *)
(* caught.  With a registered callback the function calls it and returns;  *)
(* without one it writes e's status, sends the fixed text and ends.        *)
(***************************************************************************)
OnUnhandledException(t, r, cause, e, from, rest) ==
    /\ history' = [history EXCEPT
                     !.hook = Append(@, [cause |-> cause, e |-> e, from |-> from,
                                         thrown_by |-> IF from = "request_handler"
                                                       THEN frame.thrower ELSE from]),
                     !.user_ran = @ \/ unhandled_exception_callback = "user"]
    /\ IF unhandled_exception_callback = "user"
       THEN /\ site' = [kind |-> "hook", from |-> from, cause |-> cause]
            /\ response' = r
            /\ stack' = Unwind(t, <<L("user")>> \o rest)
       ELSE /\ site' = NoSite
            /\ response' = set_status(r, e.code, e.reason)
            /\ stack' = Unwind(t, Call(Op("send_text", 0, "Internal Server Error"))
                                    \o <<L("end")>> \o rest)

\* The web_exception that the catch blocks build.
InternalError == web_exception(500, "Internal Server Error")

\* What the worker pool's enqueue does: it returns, or raises a
\* web_exception or another error.
EnqueueOutcomes == {NoException, web_exception(503, "Service Unavailable"), std_exception}

\* A faulty on_request_received: the return after the 405 answer is
\* missing, and the request is enqueued like any other.
OnRequestReceived_NoReturn(req, transport_status, raised) ==
    /\ Top(TransportThread) = "on_request_received"
    /\ raised = NoException
    /\ request' = [method |-> req.method, uri |-> req.uri, path_params |-> <<>>]
    /\ LET res == web_response_ctor([status |-> transport_status, headers |-> <<>>,
                                     body |-> ""])
       IN  IF unknown_method(req.method)
           THEN /\ response' = set_status(res, 405, "Method Not Allowed")
                /\ stack' = Continue(TransportThread,
                                Call(Op("send_text", 0, "405 Method Not Allowed"))
                                \o <<L("end")>>)
                /\ frame' = [frame EXCEPT !.state = "rejected"]
           ELSE /\ response' = res
                /\ stack' = Continue(TransportThread, <<>>)
                /\ frame' = [frame EXCEPT !.state = "queued"]
    /\ tasks' = Append(tasks, "request_handler")
    /\ history' = [history EXCEPT !.enqueued = @ + 1]
    /\ UNCHANGED <<config, utility, did_send, did_end, site, opsLeft, transport>>

(***************************************************************************)
(* web_server::on_request_received, on the transport thread.               *)
(***************************************************************************)
OnRequestReceived(req, transport_status, raised) ==
    /\ Top(TransportThread) = "on_request_received"
    /\ request' = [method |-> req.method, uri |-> req.uri, path_params |-> <<>>]
    /\ LET res == web_response_ctor([status |-> transport_status, headers |-> <<>>,
                                     body |-> ""])
       IN  IF unknown_method(req.method)
           THEN /\ raised = NoException
                /\ response' = set_status(res, 405, "Method Not Allowed")
                /\ stack' = Continue(TransportThread,
                                Call(Op("send_text", 0, "405 Method Not Allowed"))
                                \o <<L("end")>>)
                /\ frame' = [frame EXCEPT !.state = "rejected"]
                /\ UNCHANGED <<tasks, site, history>>
           ELSE IF raised = NoException
           THEN /\ response' = res
                /\ tasks' = Append(tasks, "request_handler")
                /\ stack' = Continue(TransportThread, <<>>)
                /\ frame' = [frame EXCEPT !.state = "queued"]
                /\ history' = [history EXCEPT !.enqueued = @ + 1]
                /\ UNCHANGED site
           ELSE /\ frame' = [frame EXCEPT !.state = "enqueue_failed"]
                /\ tasks' = tasks
                /\ OnUnhandledException(TransportThread, res, raised,
                       IF raised.kind = "web_exception" THEN raised ELSE InternalError,
                       "on_request_received", <<L("send"), L("end")>>)
    /\ UNCHANGED <<config, utility, did_send, did_end, opsLeft, transport>>

(***************************************************************************)
(* The worker pool: a worker takes the task and runs request_handler.      *)
(***************************************************************************)
WorkerTake ==
    /\ Top(WorkerThread) = "take"
    /\ tasks # <<>>
    /\ tasks' = Tail(tasks)
    /\ stack' = Continue(WorkerThread, <<L(Head(tasks))>>)
    /\ frame' = [frame EXCEPT !.state = "running"]
    /\ history' = [history EXCEPT !.started = @ + 1]
    /\ UNCHANGED <<config, utility, request, response, did_send, did_end, site, opsLeft, transport>>

(***************************************************************************)
(* web_server::request_handler                                             *)
(***************************************************************************)
\* The head of the try block: a static URI goes to serve_static, any
\* other to the routers.
RequestHandler ==
    /\ Top(WorkerThread) = "request_handler"
    /\ frame' = [frame EXCEPT !.handled = FALSE, !.router = 1]
    /\ stack' = Continue(WorkerThread,
                    IF is_uri_static(request.uri)
                    THEN <<L("serve_static"), L("fallback")>>
                    ELSE <<L("handle_request"), L("fallback")>>)
    /\ UNCHANGED <<config, utility, request, response, did_send, did_end, tasks, site, opsLeft,
                   transport, history>>

\* A faulty serve_static: the break is missing, and the loop ends with
\* the path under the last directory.
FilePath_NoBreak(sanitized_path, k) ==
    IF static_directories = <<>> THEN <<>>
    ELSE static_directories[Len(static_directories)] \o sanitized_path

\* The file serve_static's loop over the static directories ends with:
\* the first that opens, else the last one tried.
RECURSIVE FilePath(_, _)
FilePath(sanitized_path, k) ==
    IF k > Len(static_directories) THEN <<>>
    ELSE LET file_path == static_directories[k] \o sanitized_path
         IN  IF file_path \in Files \/ k = Len(static_directories) THEN file_path
             ELSE FilePath(sanitized_path, k + 1)

\* The values of file_path that the loop and the checks after it hand to
\* std::ifstream, in order.
RECURSIVE TriedPaths(_, _)
TriedPaths(sanitized_path, k) ==
    IF k > Len(static_directories) THEN <<>>
    ELSE LET file_path == static_directories[k] \o sanitized_path
         IN  IF file_path \in Files THEN <<file_path>>
             ELSE <<file_path>> \o TriedPaths(sanitized_path, k + 1)

\* web_server::serve_static.  Reading the file may raise (read_error); the
\* catch block of serve_static then calls the error hook with a new 500.
ServeStatic(read_error) ==
    /\ Top(WorkerThread) = "serve_static"
    /\ frame' = [frame EXCEPT !.file_paths = TriedPaths(sanitize_path(request.uri), 1)]
    /\ LET uri == request.uri
           sanitized_path == sanitize_path(uri)
           file_path == FilePath(sanitized_path, 1)
       IN  IF file_path = <<>> \/ file_path \notin Files
           THEN /\ ~read_error
                /\ response' = set_status(response, 404, "Not Found")
                /\ stack' = Continue(WorkerThread,
                                Call(Op("send_text", 0, "404 Not Found"))
                                \o <<L("served")>>)
                /\ UNCHANGED <<site, history>>
           ELSE IF ~read_error
           THEN /\ response' =
                     set_status(
                       set_content_type(
                         set_body(response, FileContent(file_path)),
                         get_mime_type_from_extension(get_file_extension_from_uri(uri))),
                       200, "OK")
                /\ stack' = Continue(WorkerThread, <<L("send"), L("served")>>)
                /\ UNCHANGED <<site, history>>
           ELSE OnUnhandledException(WorkerThread, response, std_exception,
                    InternalError, "serve_static", <<L("served")>> \o Tail(stack[WorkerThread]))
    /\ UNCHANGED <<config, utility, request, did_send, did_end, tasks, opsLeft, transport>>

\* A faulty request_handler: handled stays false after serve_static.
Served_NotHandled ==
    /\ Top(WorkerThread) = "served"
    /\ frame' = frame
    /\ stack' = Continue(WorkerThread, <<>>)
    /\ UNCHANGED <<config, utility, request, response, did_send, did_end, tasks, site, opsLeft,
                   transport, history>>

\* serve_static returned: handled = true.
Served ==
    /\ Top(WorkerThread) = "served"
    /\ frame' = [frame EXCEPT !.handled = TRUE]
    /\ stack' = Continue(WorkerThread, <<>>)
    /\ UNCHANGED <<config, utility, request, response, did_send, did_end, tasks, site, opsLeft,
                   transport, history>>

(***************************************************************************)
(* web_router::handle_request, entered from request_handler's loop over    *)
(* the routers, with web_router::middleware_handle_request,                *)
(* web_route::match and web_route::handle_request inside it.               *)
(***************************************************************************)
\* A faulty web_router::handle_request: the middleware chain is not run
\* and the router goes straight to its routes.
HandleRequest_SkipsMiddleware ==
    /\ Top(WorkerThread) = "handle_request"
    /\ IF frame.router > Len(routers)
       THEN /\ stack' = Continue(WorkerThread, <<>>)
            /\ frame' = frame
       ELSE /\ stack' = Continue(WorkerThread, <<L("match")>>)
            /\ frame' = [frame EXCEPT !.route = 1]
    /\ UNCHANGED <<config, utility, request, response, did_send, did_end, tasks, site, opsLeft,
                   transport, history>>

\* The loop of request_handler over the routers: the next router, or the
\* end of the loop with handled still false.
HandleRequest ==
    /\ Top(WorkerThread) = "handle_request"
    /\ IF frame.router > Len(routers)
       THEN /\ stack' = Continue(WorkerThread, <<>>)
            /\ frame' = frame
       ELSE /\ stack' = Continue(WorkerThread, <<L("middleware")>>)
            /\ frame' = [frame EXCEPT !.middleware = 1]
    /\ UNCHANGED <<config, utility, request, response, did_send, did_end, tasks, site, opsLeft,
                   transport, history>>

\* middleware_handle_request: the next middleware is called, or the loop
\* is over and the result is CONTINUE.
MiddlewareInvoke ==
    /\ Top(WorkerThread) = "middleware"
    /\ IF frame.middleware > routers[frame.router].middlewares
       THEN /\ stack' = Continue(WorkerThread, <<L("match")>>)
            /\ frame' = [frame EXCEPT !.route = 1]
            /\ UNCHANGED <<site, history>>
       ELSE /\ stack' = Continue(WorkerThread, <<L("user"), L("middleware_result")>>)
            /\ site' = Site("middleware", "handle_request")
            /\ frame' = frame
            /\ history' = [history EXCEPT
                   !.middleware = Append(@, [router |-> frame.router,
                                             index |-> frame.middleware,
                                             result |-> "RUNNING",
                                             sent |-> did_send,
                                             found |-> response,
                                             left |-> NoResponse]),
                   !.user_ran = TRUE]
    /\ UNCHANGED <<config, utility, request, response, did_send, did_end, tasks, opsLeft, transport>>

\* A faulty middleware_handle_request: EXIT is taken like CONTINUE and
\* the next middleware is called.
MiddlewareResult_IgnoresExit ==
    /\ Top(WorkerThread) = "middleware_result"
    /\ CASE frame.result = ERROR ->
              /\ frame' = [frame EXCEPT !.handled = TRUE]
              /\ stack' = Continue(WorkerThread, <<>>)
         [] frame.result \in {CONTINUE, EXIT} ->
              /\ frame' = [frame EXCEPT !.middleware = @ + 1]
              /\ stack' = Continue(WorkerThread, <<L("middleware")>>)
         [] OTHER ->
              /\ frame' = [frame EXCEPT !.e = std_exception, !.thrower = "invalid"]
              /\ stack' = Unwind(WorkerThread, <<L("catch")>>)
    /\ UNCHANGED <<config, utility, request, response, did_send, did_end, tasks, site, opsLeft,
                   transport, history>>

\* A faulty web_router::handle_request: a middleware result other than
\* CONTINUE makes the router return false instead of true.
MiddlewareResult_NotHandled ==
    /\ Top(WorkerThread) = "middleware_result"
    /\ CASE frame.result \in {EXIT, ERROR} ->
              /\ frame' = [frame EXCEPT !.router = @ + 1]
              /\ stack' = Continue(WorkerThread, <<L("handle_request")>>)
         [] frame.result = CONTINUE ->
              /\ frame' = [frame EXCEPT !.middleware = @ + 1]
              /\ stack' = Continue(WorkerThread, <<L("middleware")>>)
         [] OTHER ->
              /\ frame' = [frame EXCEPT !.e = std_exception, !.thrower = "invalid"]
              /\ stack' = Unwind(WorkerThread, <<L("catch")>>)
    /\ UNCHANGED <<config, utility, request, response, did_send, did_end, tasks, site, opsLeft,
                   transport, history>>

\* The branches on the middleware's result.
MiddlewareResult ==
    /\ Top(WorkerThread) = "middleware_result"
    /\ CASE frame.result \in {EXIT, ERROR} ->
              /\ frame' = [frame EXCEPT !.handled = TRUE]
              /\ stack' = Continue(WorkerThread, <<>>)
         [] frame.result = CONTINUE ->
              /\ frame' = [frame EXCEPT !.middleware = @ + 1]
              /\ stack' = Continue(WorkerThread, <<L("middleware")>>)
         [] OTHER ->
              /\ frame' = [frame EXCEPT !.e = std_exception, !.thrower = "invalid"]
              /\ stack' = Unwind(WorkerThread, <<L("catch")>>)
    /\ UNCHANGED <<config, utility, request, response, did_send, did_end, tasks, site, opsLeft,
                   transport, history>>

\* web_route::match on a request with this method and uri: thrown when
\* match_path raises; else the result and the captures match_path found.
match(route, method, uri) ==
    LET m == match_path(route.expression, get_path(uri))
    IN  [thrown |-> m.thrown, matched |-> m.matched, path_params |-> m.params,
         result |-> route.method = method /\ m.matched]

\* A faulty web_request::set_path_params: params already written stay.
set_path_params_KeepsFirst(r, params) ==
    IF r.path_params = <<>> THEN [r EXCEPT !.path_params = params] ELSE r

\* web_request::set_path_params: the slot is overwritten.
set_path_params(r, params) == [r EXCEPT !.path_params = params]

\* The loop of handle_request over the routes with web_route::match: the
\* captures are stored whenever the path matches, whatever the method.
RouteMatch ==
    /\ Top(WorkerThread) = "match"
    /\ IF frame.route > Len(routers[frame.router].routes)
       THEN /\ frame' = [frame EXCEPT !.router = @ + 1]
            /\ stack' = Continue(WorkerThread, <<L("handle_request")>>)
            /\ UNCHANGED <<request, history>>
       ELSE LET route == routers[frame.router].routes[frame.route]
                m == match(route, request.method, request.uri)
            IN  IF m.thrown
                THEN /\ frame' = [frame EXCEPT !.e = std_exception, !.thrower = "match"]
                     /\ stack' = Unwind(WorkerThread, <<L("catch")>>)
                     /\ request' = request
                     /\ history' = [history EXCEPT
                            !.match = Append(@, <<frame.router, frame.route>>)]
                ELSE /\ request' = IF m.matched
                                   THEN set_path_params(request, m.path_params)
                                   ELSE request
                     /\ IF m.result
                        THEN /\ frame' = [frame EXCEPT !.handler = 1]
                             /\ stack' = Continue(WorkerThread, <<L("handler")>>)
                             /\ history' = [history EXCEPT
                                    !.match = Append(@, <<frame.router, frame.route>>),
                                    !.set_path_params = Append(@, <<frame.router, frame.route>>),
                                    !.route = Append(@, <<frame.router, frame.route>>)]
                        ELSE /\ frame' = [frame EXCEPT !.route = @ + 1]
                             /\ stack' = stack
                             /\ history' = [history EXCEPT
                                    !.match = Append(@, <<frame.router, frame.route>>),
                                    !.set_path_params =
                                        IF m.matched
                                        THEN Append(@, <<frame.router, frame.route>>)
                                        ELSE @]
    /\ UNCHANGED <<config, utility, response, did_send, did_end, tasks, site, opsLeft, transport>>

\* A faulty web_router::handle_request: after a route's chain has run to
\* its end the loop over the routes goes on instead of returning true.
HandlerInvoke_FallsThrough ==
    /\ Top(WorkerThread) = "handler"
    /\ IF frame.handler > routers[frame.router].routes[frame.route].handlers
       THEN /\ stack' = Continue(WorkerThread, <<L("match")>>)
            /\ frame' = [frame EXCEPT !.route = @ + 1]
            /\ UNCHANGED <<site, history>>
       ELSE /\ stack' = Continue(WorkerThread, <<L("user"), L("handler_result")>>)
            /\ site' = Site("handler", "handle_request")
            /\ frame' = frame
            /\ history' = [history EXCEPT
                   !.handler = Append(@, [router |-> frame.router, route |-> frame.route,
                                          index |-> frame.handler, result |-> "RUNNING"]),
                   !.user_ran = TRUE]
    /\ UNCHANGED <<config, utility, request, response, did_send, did_end, tasks, opsLeft, transport>>

\* web_route::handle_request: the next handler of the chain is called, or
\* the chain is over and the route returns EXIT.
HandlerInvoke ==
    /\ Top(WorkerThread) = "handler"
    /\ IF frame.handler > routers[frame.router].routes[frame.route].handlers
       THEN /\ stack' = Continue(WorkerThread, <<>>)
            /\ frame' = [frame EXCEPT !.handled = TRUE]
            /\ site' = site
            /\ history' = [history EXCEPT !.route_result = Append(@, EXIT)]
       ELSE /\ stack' = Continue(WorkerThread, <<L("user"), L("handler_result")>>)
            /\ site' = Site("handler", "handle_request")
            /\ frame' = frame
            /\ history' = [history EXCEPT
                   !.handler = Append(@, [router |-> frame.router, route |-> frame.route,
                                          index |-> frame.handler, result |-> "RUNNING"]),
                   !.user_ran = TRUE]
    /\ UNCHANGED <<config, utility, request, response, did_send, did_end, tasks, opsLeft, transport>>

\* A faulty web_route::handle_request: ERROR is taken like CONTINUE and
\* the next handler of the chain is called.
HandlerResult_ErrorContinues ==
    /\ Top(WorkerThread) = "handler_result"
    /\ CASE frame.result = EXIT ->
              /\ frame' = [frame EXCEPT !.handled = TRUE]
              /\ stack' = Continue(WorkerThread, <<>>)
              /\ history' = [history EXCEPT !.route_result = Append(@, frame.result)]
         [] frame.result \in {CONTINUE, ERROR} ->
              /\ frame' = [frame EXCEPT !.handler = @ + 1]
              /\ stack' = Continue(WorkerThread, <<L("handler")>>)
              /\ history' = history
         [] OTHER ->
              /\ frame' = [frame EXCEPT !.e = std_exception, !.thrower = "invalid"]
              /\ stack' = Unwind(WorkerThread, <<L("catch")>>)
              /\ history' = history
    /\ UNCHANGED <<config, utility, request, response, did_send, did_end, tasks, site, opsLeft,
                   transport>>

\* A faulty web_route::handle_request: ERROR is taken like a value outside
\* the flow codes and std::runtime_error is raised.
HandlerResult_ErrorRaises ==
    /\ Top(WorkerThread) = "handler_result"
    /\ CASE frame.result = EXIT ->
              /\ frame' = [frame EXCEPT !.handled = TRUE]
              /\ stack' = Continue(WorkerThread, <<>>)
              /\ history' = [history EXCEPT !.route_result = Append(@, frame.result)]
         [] frame.result = CONTINUE ->
              /\ frame' = [frame EXCEPT !.handler = @ + 1]
              /\ stack' = Continue(WorkerThread, <<L("handler")>>)
              /\ history' = history
         [] OTHER ->
              /\ frame' = [frame EXCEPT !.e = std_exception, !.thrower = "invalid"]
              /\ stack' = Unwind(WorkerThread, <<L("catch")>>)
              /\ history' = history
    /\ UNCHANGED <<config, utility, request, response, did_send, did_end, tasks, site, opsLeft,
                   transport>>

\* The branches on the handler's result: the route returns EXIT or ERROR
\* as the handler did (the router then returns true), goes on to the next
\* handler, or raises std::runtime_error.
HandlerResult ==
    /\ Top(WorkerThread) = "handler_result"
    /\ CASE frame.result \in {EXIT, ERROR} ->
              /\ frame' = [frame EXCEPT !.handled = TRUE]
              /\ stack' = Continue(WorkerThread, <<>>)
              /\ history' = [history EXCEPT !.route_result = Append(@, frame.result)]
         [] frame.result = CONTINUE ->
              /\ frame' = [frame EXCEPT !.handler = @ + 1]
              /\ stack' = Continue(WorkerThread, <<L("handler")>>)
              /\ history' = history
         [] OTHER ->
              /\ frame' = [frame EXCEPT !.e = std_exception, !.thrower = "invalid"]
              /\ stack' = Unwind(WorkerThread, <<L("catch")>>)
              /\ history' = history
    /\ UNCHANGED <<config, utility, request, response, did_send, did_end, tasks, site, opsLeft,
                   transport>>

\* A faulty request_handler: the test of handled is missing and the
\* unmatched-route handler is called for every request.
Fallback_IgnoresHandled ==
    /\ Top(WorkerThread) = "fallback"
    /\ LET finish == <<L("send"), L("end"), L("send"), L("end"), L("return")>>
       IN  IF handle_unmatched_route = "user"
           THEN /\ stack' = Continue(WorkerThread, <<L("user")>> \o finish)
                /\ site' = Site("unmatched", "request_handler")
                /\ response' = response
                /\ history' = [history EXCEPT !.unmatched = @ + 1, !.user_ran = TRUE]
           ELSE /\ stack' = Continue(WorkerThread,
                                Call(Op("send_text", 0, "404 Not Found")) \o finish)
                /\ site' = site
                /\ response' = set_status(response, 404, "Not Found")
                /\ history' = [history EXCEPT !.unmatched = @ + 1]
    /\ UNCHANGED <<config, utility, request, did_send, did_end, tasks, frame, opsLeft, transport>>

\* The tail of request_handler's try block and the statements after the
\* catch block: the unmatched-route handler when nothing handled the
\* request, then send, end, send, end.
Fallback ==
    /\ Top(WorkerThread) = "fallback"
    /\ LET finish == <<L("send"), L("end"), L("send"), L("end"), L("return")>>
       IN  IF frame.handled
           THEN /\ stack' = Continue(WorkerThread, finish)
                /\ UNCHANGED <<response, site, history>>
           ELSE IF handle_unmatched_route = "user"
           THEN /\ stack' = Continue(WorkerThread, <<L("user")>> \o finish)
                /\ site' = Site("unmatched", "request_handler")
                /\ response' = response
                /\ history' = [history EXCEPT !.unmatched = @ + 1, !.user_ran = TRUE]
           ELSE /\ stack' = Continue(WorkerThread,
                                Call(Op("send_text", 0, "404 Not Found")) \o finish)
                /\ site' = site
                /\ response' = set_status(response, 404, "Not Found")
                /\ history' = [history EXCEPT !.unmatched = @ + 1]
    /\ UNCHANGED <<config, utility, request, did_send, did_end, tasks, frame, opsLeft, transport>>

\* The catch block of request_handler: whatever was caught, the hook gets
\* a new web_exception with status 500; send and end follow the block.
Catch ==
    /\ Top(WorkerThread) = "catch"
    /\ OnUnhandledException(WorkerThread, response, frame.e, InternalError,
                            "request_handler", <<L("send"), L("end"), L("return")>>)
    /\ UNCHANGED <<config, utility, request, did_send, did_end, tasks, frame, opsLeft, transport>>

\* request_handler returns.
Return ==
    /\ Top(WorkerThread) = "return"
    /\ frame' = [frame EXCEPT !.state = "returned"]
    /\ stack' = Continue(WorkerThread, <<>>)
    /\ UNCHANGED <<config, utility, request, response, did_send, did_end, tasks, site, opsLeft,
                   transport, history>>

(***************************************************************************)
(* The specification.                                                      *)
(***************************************************************************)
Next ==
    \/ \E req \in Requests, transport_status \in TransportStatuses,
          raised \in EnqueueOutcomes :
           OnRequestReceived(req, transport_status, raised)
    \/ WorkerTake
    \/ RequestHandler
    \/ \E read_error \in BOOLEAN : ServeStatic(read_error)
    \/ Served
    \/ HandleRequest
    \/ MiddlewareInvoke
    \/ MiddlewareResult
    \/ RouteMatch
    \/ HandlerInvoke
    \/ HandlerResult
    \/ Fallback
    \/ Catch
    \/ Return
    \/ \E t \in Threads : SendExchange(t)
    \/ \E t \in Threads : SendDefaults(t)
    \/ \E t \in Threads : TransportSend(t)
    \/ \E t \in Threads : EndExchange(t)
    \/ \E t \in Threads : TransportEnd(t)
    \/ \E t \in Threads : LockedBlock(t)
    \/ \E t \in Threads, o \in UserOps : UserOp(t, o)
    \/ \E t \in Threads, code \in ExitCodes : UserReturn(t, code)
    \/ \E t \in Threads, e \in UserExceptions : UserThrow(t, e)

\* Every request, every configuration, user code that keeps the response
\* on the thread it was called on.
Spec == Init /\ [][Next]_vars

(***************************************************************************)
(* The same dispatcher with user code that starts threads: the threads     *)
(* keep the shared_ptr to the response and call its operations while the   *)
(* worker goes on.  The routed requests, the default hooks.                *)
(***************************************************************************)
ThreadRequests ==
    { [method |-> "GET", uri |-> <<"/", "s", "t", "r", "e", "s", "s", "/", "7">>],
      [method |-> "GET", uri |-> <<"/", "n", "o", "p", "e">>] }

ThreadOps ==
    { Op("set_status", 401, "Unauthorized"),
      Op("send", 0, ""),
      Op("send_text", 0, "Unauthorized access") }

InitThreads ==
    /\ Init
    /\ unhandled_exception_callback = "null"
    /\ handle_unmatched_route = "default"

NextThreads ==
    \/ \E req \in ThreadRequests, transport_status \in TransportStatuses :
           OnRequestReceived(req, transport_status, NoException)
    \/ WorkerTake
    \/ RequestHandler
    \/ HandleRequest
    \/ MiddlewareInvoke
    \/ MiddlewareResult
    \/ RouteMatch
    \/ HandlerInvoke
    \/ HandlerResult
    \/ Fallback
    \/ Catch
    \/ Return
    \/ \E t \in Threads : SendExchange(t)
    \/ \E t \in Threads : SendDefaults(t)
    \/ \E t \in Threads : TransportSend(t)
    \/ \E t \in Threads : EndExchange(t)
    \/ \E t \in Threads : TransportEnd(t)
    \/ \E t \in Threads : LockedBlock(t)
    \/ \E t \in Threads, o \in ThreadOps : UserOp(t, o)
    \/ \E t \in AuxThreads, o \in ThreadOps : AuxOp(t, o)
    \/ \E t \in Threads, code \in ExitCodes : UserReturn(t, code)
    \/ \E t \in Threads, e \in UserExceptions : UserThrow(t, e)

SpecThreads == InitThreads /\ [][NextThreads]_vars

(***************************************************************************)
(* The same dispatcher handed a transport response of any status: the one *)
(* a fresh response has, or one the transport had set before.  A request   *)
(* that goes through the routers unmatched and one with an unknown method. *)
(***************************************************************************)
AnyTransportStatuses == { <<200, "OK">>, <<500, "Internal Server Error">> }

TransportRequests ==
    { [method |-> "GET", uri |-> <<"/", "n", "o", "p", "e">>],
      [method |-> "BREW", uri |-> <<"/", "s", "t", "r", "e", "s", "s">>] }

NextTransport ==
    \/ \E req \in TransportRequests, transport_status \in AnyTransportStatuses,
          raised \in EnqueueOutcomes :
           OnRequestReceived(req, transport_status, raised)
    \/ WorkerTake
    \/ RequestHandler
    \/ HandleRequest
    \/ MiddlewareInvoke
    \/ MiddlewareResult
    \/ RouteMatch
    \/ Fallback
    \/ Catch
    \/ Return
    \/ \E t \in Threads : SendExchange(t)
    \/ \E t \in Threads : SendDefaults(t)
    \/ \E t \in Threads : TransportSend(t)
    \/ \E t \in Threads : EndExchange(t)
    \/ \E t \in Threads : TransportEnd(t)
    \/ \E t \in Threads : LockedBlock(t)
    \/ \E t \in Threads, o \in UserOps : UserOp(t, o)
    \/ \E t \in Threads, code \in ExitCodes : UserReturn(t, code)
    \/ \E t \in Threads, e \in UserExceptions : UserThrow(t, e)

SpecTransport == Init /\ [][NextTransport]_vars

\* The strings of up to n characters out of chars.
Strings(chars, n) == UNION {[1..k -> chars] : k \in 0..n}

(***************************************************************************)
(* The same dispatcher with the default hooks and requests for static      *)
(* files: every URI of up to MaxUriLen characters over slash, dot, j and s *)
(* that is_uri_static classifies as static, and the URIs of the load       *)
(* script.                                                                 *)
(***************************************************************************)
UriChars == {"/", ".", "j", "s"}

StaticURIs ==
    {uri \in Strings(UriChars, MaxUriLen) : is_uri_static(uri)}
    \cup { <<"/", "a", "p", "p", ".", "j", "s">>,
           <<"/", ".", ".", "/", "a", "p", "p", ".", "j", "s">> }

NextStatic ==
    \/ \E uri \in StaticURIs, transport_status \in TransportStatuses :
           OnRequestReceived([method |-> "GET", uri |-> uri], transport_status, NoException)
    \/ WorkerTake
    \/ RequestHandler
    \/ \E read_error \in BOOLEAN : ServeStatic(read_error)
    \/ Served
    \/ Fallback
    \/ Return
    \/ \E t \in Threads : SendExchange(t)
    \/ \E t \in Threads : SendDefaults(t)
    \/ \E t \in Threads : TransportSend(t)
    \/ \E t \in Threads : EndExchange(t)
    \/ \E t \in Threads : TransportEnd(t)
    \/ \E t \in Threads : LockedBlock(t)

SpecStatic == InitThreads /\ [][NextStatic]_vars

(***************************************************************************)
(* The requests for static files against the servers that use_static can   *)
(* set up out of two directories: none registered, one, both in either     *)
(* order.                                                                   *)
(***************************************************************************)
StaticDirectoryConfigs ==
    { <<>>,
      << <<"s", "t", "a", "t", "i", "c">> >>,
      << <<"p", "u", "b">> >>,
      << <<"s", "t", "a", "t", "i", "c">>, <<"p", "u", "b">> >>,
      << <<"p", "u", "b">>, <<"s", "t", "a", "t", "i", "c">> >> }

InitRoots ==
    /\ InitServer
    /\ unhandled_exception_callback = "null"
    /\ handle_unmatched_route = "default"
    /\ static_directories \in StaticDirectoryConfigs
    /\ call = NoCall
    /\ ret = Pending
    /\ pool = EmptyPool

SpecRoots == InitRoots /\ [][NextStatic]_vars

(***************************************************************************)
(* The same dispatcher with the default hooks and requests whose URI       *)
(* carries a query string: a static file and a route of the example        *)
(* application, each without a query and with one.                         *)
(***************************************************************************)
QueryRequests ==
    { [method |-> "GET", uri |-> <<"/", "a", "p", "p", ".", "j", "s">>],
      [method |-> "GET", uri |-> <<"/", "a", "p", "p", ".", "j", "s", "?", "v", "=", "1">>],
      [method |-> "GET", uri |-> <<"/", "s", "t", "r", "e", "s", "s">>],
      [method |-> "GET", uri |-> <<"/", "s", "t", "r", "e", "s", "s", "?", "f", "=", "a", ".", "j", "s">>] }

NextQuery ==
    \/ \E req \in QueryRequests, transport_status \in TransportStatuses :
           OnRequestReceived(req, transport_status, NoException)
    \/ WorkerTake
    \/ RequestHandler
    \/ \E read_error \in BOOLEAN : ServeStatic(read_error)
    \/ Served
    \/ HandleRequest
    \/ MiddlewareInvoke
    \/ MiddlewareResult
    \/ RouteMatch
    \/ HandlerInvoke
    \/ HandlerResult
    \/ Fallback
    \/ Catch
    \/ Return
    \/ \E t \in Threads : SendExchange(t)
    \/ \E t \in Threads : SendDefaults(t)
    \/ \E t \in Threads : TransportSend(t)
    \/ \E t \in Threads : EndExchange(t)
    \/ \E t \in Threads : TransportEnd(t)
    \/ \E t \in Threads : LockedBlock(t)
    \/ \E t \in Threads, o \in UserOps : UserOp(t, o)
    \/ \E t \in Threads, code \in ExitCodes : UserReturn(t, code)
    \/ \E t \in Threads, e \in UserExceptions : UserThrow(t, e)

SpecQuery == InitThreads /\ [][NextQuery]_vars

(***************************************************************************)
(* The same dispatcher with the default hooks and user code that sets      *)
(* headers: a Connection header of its own, a body, and the two senders.   *)
(***************************************************************************)
HeaderOps ==
    { Op("add_header", 0, HEADER_CONNECTION),
      Op("set_body", 0, "a"),
      Op("send", 0, ""),
      Op("send_text", 0, "Unauthorized access") }

NextHeaders ==
    \/ \E req \in ThreadRequests, transport_status \in TransportStatuses :
           OnRequestReceived(req, transport_status, NoException)
    \/ WorkerTake
    \/ RequestHandler
    \/ HandleRequest
    \/ MiddlewareInvoke
    \/ MiddlewareResult
    \/ RouteMatch
    \/ HandlerInvoke
    \/ HandlerResult
    \/ Fallback
    \/ Catch
    \/ Return
    \/ \E t \in Threads : SendExchange(t)
    \/ \E t \in Threads : SendDefaults(t)
    \/ \E t \in Threads : TransportSend(t)
    \/ \E t \in Threads : EndExchange(t)
    \/ \E t \in Threads : TransportEnd(t)
    \/ \E t \in Threads : LockedBlock(t)
    \/ \E t \in Threads, o \in HeaderOps : UserOp(t, o)
    \/ \E t \in Threads, code \in ExitCodes : UserReturn(t, code)
    \/ \E t \in Threads, e \in UserExceptions : UserThrow(t, e)

SpecHeaders == InitThreads /\ [][NextHeaders]_vars

(***************************************************************************)
(* The same dispatcher with the default hooks and requests whose path      *)
(* matches the expression of a route registered for another method before  *)
(* it reaches the route that handles them.                                 *)
(***************************************************************************)
ParamRequests ==
    { [method |-> "POST", uri |-> <<"/", "s", "t", "r", "e", "s", "s", "/", "p", "o", "s", "t">>],
      [method |-> "PUT", uri |-> <<"/", "s", "t", "r", "e", "s", "s", "/", "7">>],
      [method |-> "GET", uri |-> <<"/", "s", "t", "r", "e", "s", "s", "/", "7", "/", "f", "o", "o">>] }

NextParams ==
    \/ \E req \in ParamRequests, transport_status \in TransportStatuses :
           OnRequestReceived(req, transport_status, NoException)
    \/ WorkerTake
    \/ RequestHandler
    \/ HandleRequest
    \/ MiddlewareInvoke
    \/ MiddlewareResult
    \/ RouteMatch
    \/ HandlerInvoke
    \/ HandlerResult
    \/ Fallback
    \/ Catch
    \/ Return
    \/ \E t \in Threads : SendExchange(t)
    \/ \E t \in Threads : SendDefaults(t)
    \/ \E t \in Threads : TransportSend(t)
    \/ \E t \in Threads : EndExchange(t)
    \/ \E t \in Threads : TransportEnd(t)
    \/ \E t \in Threads : LockedBlock(t)
    \/ \E t \in Threads, o \in UserOps : UserOp(t, o)
    \/ \E t \in Threads, code \in ExitCodes : UserReturn(t, code)
    \/ \E t \in Threads, e \in UserExceptions : UserThrow(t, e)

SpecParams == InitThreads /\ [][NextParams]_vars

(***************************************************************************)
(* The worker pool with several requests.  on_request_received enqueues    *)
(* one task per request, in the order the transport delivers them; the     *)
(* pool is a single queue and MaxWorkers workers, each of which takes the  *)
(* task at the head of the queue when it is idle, runs it, and finishes it *)
(* at its own pace.  A task is the number of its request.                  *)
(***************************************************************************)
PoolRequests == 1..MaxRequests

server == <<config, call, ret, request, response, did_send, did_end, stack, frame, site,
            opsLeft, transport, history>>

\* worker_pool.enqueue of the task of request req.
PoolEnqueue(req) ==
    /\ \A i \in DOMAIN pool.enqueued : pool.enqueued[i] # req
    /\ tasks' = Append(tasks, req)
    /\ pool' = [pool EXCEPT !.enqueued = Append(@, req)]
    /\ UNCHANGED server

\* A faulty pool: an idle worker takes the task enqueued last.
PoolTake_Newest(w) ==
    /\ pool.running[w] = NoTask
    /\ tasks # <<>>
    /\ tasks' = SubSeq(tasks, 1, Len(tasks) - 1)
    /\ pool' = [pool EXCEPT !.running[w] = tasks[Len(tasks)],
                            !.started = Append(@, tasks[Len(tasks)])]
    /\ UNCHANGED server

\* An idle worker takes the task at the head of the queue and starts it.
PoolTake(w) ==
    /\ pool.running[w] = NoTask
    /\ tasks # <<>>
    /\ tasks' = Tail(tasks)
    /\ pool' = [pool EXCEPT !.running[w] = Head(tasks),
                            !.started = Append(@, Head(tasks))]
    /\ UNCHANGED server

\* The task of worker w returns: its response was sent and ended.
PoolFinish(w) ==
    /\ pool.running[w] # NoTask
    /\ pool' = [pool EXCEPT !.running[w] = NoTask,
                            !.finished = Append(@, pool.running[w])]
    /\ UNCHANGED <<server, tasks>>

NextPool ==
    \/ \E req \in PoolRequests : PoolEnqueue(req)
    \/ \E w \in Workers : PoolTake(w)
    \/ \E w \in Workers : PoolFinish(w)

SpecPool == InitThreads /\ [][NextPool]_vars

(***************************************************************************)
(* The utility functions called on their own, as user code and the         *)
(* dispatcher call them: the arguments are every string of up to           *)
(* MaxPathLen characters over the characters that matter to the function,  *)
(* and the paths and expressions of the example application.               *)
(***************************************************************************)
ExprChars == {"/", "a", ":", "*"}
PathChars == {"/", "a", ":", "%"}

ExampleExpressions ==
    { <<"/", "s", "t", "r", "e", "s", "s", "/", ":", "i", "d">>,
      <<"/", "s", "t", "r", "e", "s", "s", "/", ":", "i", "d", "/", ":", "n", "a", "m", "e">>,
      <<"/", "s", "t", "r", "e", "s", "s">>,
      <<"/", "a", "/", ":", "x", "/", "b">> }

ExamplePaths ==
    { <<"/", "s", "t", "r", "e", "s", "s", "/", "4", "2">>,
      <<"/", "s", "t", "r", "e", "s", "s", "/", "7">>,
      <<"/", "s", "t", "r", "e", "s", "s", "/", "7", "/", "f", "o", "o">>,
      <<"/", "s", "t", "r", "e", "s", "s", "/", "%", "4", "1", "b">>,
      <<"/", "s", "t", "r", "e", "s", "s", "/", ":", "i", "d">>,
      <<"s", "t", "r", "e", "s", "s", "/">>,
      <<"/", "a", "/", "/", "b">> }

Expressions == Strings(ExprChars, MaxPathLen) \cup ExampleExpressions
Paths == Strings(PathChars, MaxPathLen) \cup ExamplePaths

MatchCalls ==
    {[fn |-> "match_path", a |-> e, b |-> p, of |-> ""] : e \in Expressions, p \in Paths}

\* Bytes to encode: unreserved ones, reserved ones, the percent sign, a
\* control character and a byte above 127.
EncodeChars == {"a", "~", "%", "/", Chr(10), Chr(255)}

\* Characters to decode: the percent sign, upper and lower case
\* hexadecimal digits, and an unreserved character that is no digit.
DecodeChars == {"%", "2", "4", "1", "F", "f", "z"}

ExampleEncoded ==
    { <<"a", "%", "2", "F", "z">>, <<"%", "4", "1">>, <<"%", "2", "f">>,
      <<"%", "2", "F", "%", "2", "5">> }

UrlCalls ==
    {[fn |-> "url_encode", a |-> s, b |-> <<>>, of |-> ""] :
        s \in Strings(EncodeChars, MaxPathLen)}
    \cup {[fn |-> "url_decode", a |-> s, b |-> <<>>, of |-> ""] :
        s \in Strings(DecodeChars, MaxPathLen) \cup ExampleEncoded}

Calls == MatchCalls \cup UrlCalls

InitCalls ==
    /\ InitServer
    /\ static_directories = ExampleStaticDirectories
    /\ unhandled_exception_callback = "null"
    /\ handle_unmatched_route = "default"
    /\ call \in Calls
    /\ ret = Pending
    /\ pool = EmptyPool

\* match_path(expression, path) is called and returns, or raises.
CallMatchPath ==
    /\ call.fn = "match_path"
    /\ ~ret.done
    /\ LET m == match_path(call.a, call.b)
       IN  ret' = [done |-> TRUE, thrown |-> m.thrown, matched |-> m.matched,
                   val |-> m.params]
    /\ UNCHANGED <<config, call, pool, request, response, did_send, did_end, tasks, stack,
                   frame, site, opsLeft, transport, history>>

\* url_encode(value) is called and returns.
CallUrlEncode ==
    /\ call.fn = "url_encode"
    /\ ~ret.done
    /\ ret' = [done |-> TRUE, thrown |-> FALSE, matched |-> FALSE,
               val |-> url_encode(call.a)]
    /\ UNCHANGED <<config, call, pool, request, response, did_send, did_end, tasks, stack,
                   frame, site, opsLeft, transport, history>>

\* url_decode(value) is called and returns, or raises.
CallUrlDecode ==
    /\ call.fn = "url_decode"
    /\ ~ret.done
    /\ LET d == url_decode(call.a)
       IN  ret' = [done |-> TRUE, thrown |-> d.thrown, matched |-> FALSE, val |-> d.val]
    /\ UNCHANGED <<config, call, pool, request, response, did_send, did_end, tasks, stack,
                   frame, site, opsLeft, transport, history>>

\* The caller passes what url_encode returned to url_decode, or what
\* url_decode returned to url_encode.
PassOn ==
    /\ call.fn \in {"url_encode", "url_decode"}
    /\ call.of = ""
    /\ ret.done
    /\ ~ret.thrown
    /\ call' = [fn |-> IF call.fn = "url_encode" THEN "url_decode" ELSE "url_encode",
                a |-> ret.val, b |-> call.a, of |-> call.fn]
    /\ ret' = Pending
    /\ UNCHANGED <<config, pool, request, response, did_send, did_end, tasks, stack,
                   frame, site, opsLeft, transport, history>>

NextCalls ==
    \/ CallMatchPath
    \/ CallUrlEncode
    \/ CallUrlDecode
    \/ PassOn

SpecCalls == InitCalls /\ [][NextCalls]_vars

(***************************************************************************)
(* What the properties below speak of.                                     *)
(***************************************************************************)
Count(seq, x) == Cardinality({i \in DOMAIN seq : seq[i] = x})

\* How often the transport's send and end primitives were invoked.
Sends == Count(transport.events, "send")
Ends == Count(transport.events, "end")

\* No thread is inside a call.
Quiescent == \A t \in Threads : stack[t] = <<>>

\* The worker has left request_handler, by its return or by an error that
\* nothing caught.
LeftRequestHandler == frame.state \in {"returned", "escaped"}

\* The last middleware that was invoked.
LastMiddleware == history.middleware[Len(history.middleware)]

\* A middleware ended the request: it returned EXIT or ERROR.
MiddlewareStopped ==
    /\ history.middleware # <<>>
    /\ LastMiddleware.result \in {EXIT, ERROR}

\* The middleware of router r that were invoked, in order.
InvokedMiddleware(r) == SelectSeq(history.middleware, LAMBDA m : m.router = r)

\* Router r is past its middleware: it is in its loop over the routes, or
\* it returned false and a later router has the request.
PastMiddleware(r) ==
    \/ frame.router > r
    \/ /\ frame.router = r
       /\ Top(WorkerThread) \in {"match", "handler", "handler_result"}

\* The routes, as (router, route), whose match returns true for the
\* request, and the first of them in registration order.
RoutePairs == UNION {{<<r, k>> : k \in DOMAIN routers[r].routes} : r \in DOMAIN routers}

Matches(rk) == match(routers[rk[1]].routes[rk[2]], request.method, request.uri).result

MatchingRoutes == {rk \in RoutePairs : Matches(rk)}

Earlier(a, b) == a[1] < b[1] \/ (a[1] = b[1] /\ a[2] < b[2])

IsFirstMatchingRoute(rk) ==
    /\ Matches(rk)
    /\ \A o \in RoutePairs : Earlier(o, rk) => ~Matches(o)

(***************************************************************************)
(* C1.  Whatever path request_handler takes, once the worker has left it   *)
(* and every thread has finished its call, the transport's send primitive  *)
(* was invoked exactly once and its end primitive exactly once.  Refuted:  *)
(* a registered error hook that raises takes the worker out of             *)
(* request_handler before its send and end (see C9).                       *)
(***************************************************************************)
C1_ExactlyOneSendAndEnd ==
    (LeftRequestHandler /\ Quiescent) => (Sends = 1 /\ Ends = 1)

(***************************************************************************)
(* C2.  Among all callers of send() on one response exactly one takes the  *)
(* sent latch from false to true, and the transport's send runs once, for  *)
(* that caller; the same for end() and the ended latch; and no step takes  *)
(* a latch back to false.                                                  *)
(***************************************************************************)
C2_OneWinner ==
    /\ Len(history.sent_by) = (IF did_send THEN 1 ELSE 0)
    /\ Len(history.ended_by) = (IF did_end THEN 1 ELSE 0)
    /\ Sends = (IF did_send /\ Top(history.sent_by[1]) \notin {"send_defaults", "send_transport"}
                THEN 1 ELSE 0)
    /\ Ends = (IF did_end /\ Top(history.ended_by[1]) # "end_transport" THEN 1 ELSE 0)

C2_LatchesAreExactlyOnce ==
    /\ []C2_OneWinner
    /\ [][(did_send => did_send') /\ (did_end => did_end')]_vars

\* A thread started by user code won the sent latch and is about to
\* transmit, while the worker's own send() has returned without sending
\* and the worker is inside end().
C2_Witness ==
    \E a \in AuxThreads :
        /\ history.sent_by = <<a>>
        /\ Top(a) = "send_transport"
        /\ Top(WorkerThread) = "end_transport"

(***************************************************************************)
(* C3.  The transport's send is never invoked after its end: in the order  *)
(* the transport sees, every send comes before every end.  Refuted: send() *)
(* sets the sent latch before it transmits and never reads the ended       *)
(* latch, so a thread that won the sent latch can transmit after the       *)
(* worker has ended the response.                                          *)
(***************************************************************************)
C3_NoSendAfterEnd ==
    \A i, j \in DOMAIN transport.events :
        (transport.events[i] = "end" /\ transport.events[j] = "send") => j < i

(***************************************************************************)
(* C4.  What the transport transmits is the response as it stood when the  *)
(* sent latch was set, with the default headers of send() added.  Refuted: *)
(* the mutators do not read the latch, and send() transmits after setting  *)
(* it, so a mutation by another thread in between is transmitted.          *)
(***************************************************************************)
C4_TransmitsWhatWasLatched ==
    Sends >= 1 => transport.wire = SendDefaultsBlock(history.at_latch)

(***************************************************************************)
(* C5.  At most one route has its handler chain invoked, every handler     *)
(* that runs belongs to it, and it is the first route, in registration     *)
(* order across the routers and inside each router, whose match returns    *)
(* true for the request.                                                   *)
(***************************************************************************)
C5_FirstMatchingRouteOnly ==
    /\ Len(history.route) <= 1
    /\ \A i \in DOMAIN history.route : IsFirstMatchingRoute(history.route[i])
    /\ \A i \in DOMAIN history.handler :
           history.route = << <<history.handler[i].router, history.handler[i].route>> >>
    /\ history.route # <<>> => ~is_uri_static(request.uri)

\* Two routes match the request, in different routers, and a handler of
\* the first of them has run.
C5_Witness ==
    /\ history.route = << <<1, 3>> >>
    /\ history.handler # <<>>
    /\ history.handler[1].result = EXIT
    /\ Cardinality(MatchingRoutes) >= 2

(***************************************************************************)
(* C6.  For every router, the middleware invoked are the first ones of its *)
(* registered list, in order; each but the last invoked returned CONTINUE; *)
(* and the router goes on to its routes only after the whole list has      *)
(* returned CONTINUE.                                                      *)
(***************************************************************************)
C6_MiddlewarePrefix ==
    \A r \in DOMAIN routers :
        LET invoked == InvokedMiddleware(r)
        IN  /\ Len(invoked) <= routers[r].middlewares
            /\ \A i \in DOMAIN invoked : invoked[i].index = i
            /\ \A i \in 1..(Len(invoked) - 1) : invoked[i].result = CONTINUE
            /\ PastMiddleware(r) =>
                   /\ Len(invoked) = routers[r].middlewares
                   /\ \A i \in DOMAIN invoked : invoked[i].result = CONTINUE

\* The second router ran its first middleware, which returned CONTINUE,
\* and its second, which returned EXIT, after the first router had run its
\* whole list.
C6_Witness ==
    /\ Len(InvokedMiddleware(1)) = 1
    /\ Len(InvokedMiddleware(2)) = 2
    /\ InvokedMiddleware(2)[1].result = CONTINUE
    /\ InvokedMiddleware(2)[2].result = EXIT
    /\ LeftRequestHandler

(***************************************************************************)
(* C7.  After a middleware of a router has returned EXIT or ERROR: no      *)
(* route of that router is matched against the request or handled, the     *)
(* router reports handled = true, no later router, no unmatched-route      *)
(* handler and no error hook is invoked; and when the response had not     *)
(* been sent before that middleware was invoked and no other thread wrote  *)
(* to it, what the transport transmits is the response as it stood when    *)
(* the middleware called send() or, when it called none, as it left it.    *)
(***************************************************************************)
C7_NothingRunsAfterTheMiddleware ==
    /\ \A i \in DOMAIN history.match : history.match[i][1] < LastMiddleware.router
    /\ \A i \in DOMAIN history.middleware :
           history.middleware[i].router <= LastMiddleware.router
    /\ history.route = <<>>
    /\ history.handler = <<>>
    /\ history.unmatched = 0
    /\ history.hook = <<>>
    /\ frame.router = LastMiddleware.router
    /\ Top(WorkerThread) # "middleware_result" => frame.handled

C8_HookGetsTheThrownError ==
    \A i \in DOMAIN history.hook :
        LET h == history.hook[i]
        IN  (h.thrown_by \in {"middleware", "handler"} /\ h.cause.kind = "web_exception") =>
                (h.e.code = h.cause.code /\ h.e.reason = h.cause.reason)

(***************************************************************************)
(* C9.  An enqueued request is finalized: once the worker has left         *)
(* request_handler and every thread has finished its call, the transport   *)
(* has seen a send and an end.  Refuted: a registered error hook that      *)
(* raises inside the catch block of request_handler is caught by nothing,  *)
(* and the send and end after the block are not reached; from that state   *)
(* no thread can call end().                                               *)
(***************************************************************************)
C9_EnqueuedIsFinalized ==
    (history.enqueued = 1 /\ history.started = 1 /\ LeftRequestHandler /\ Quiescent) =>
        (\E i \in DOMAIN transport.events : transport.events[i] = "send")
        /\ (\E j \in DOMAIN transport.events : transport.events[j] = "end")

PatchStress ==
    /\ request.method = "PATCH"
    /\ request.uri = <<"/", "s", "t", "r", "e", "s", "s">>

AllRoutersReturnedFalse ==
    /\ frame.router = Len(routers) + 1
    /\ ~frame.handled

\* The worker still has the locked block of a response operation to run.
InLockedBlock == \E i \in DOMAIN stack[WorkerThread] : stack[WorkerThread][i][1] = "locked_block"

C13_OneContentLengthOfTheBody ==
    (Sends >= 1 /\ get_header(history.at_latch, HEADER_CONTENT_LENGTH) = <<>>) =>
        /\ Len(get_header(transport.wire, HEADER_CONTENT_LENGTH)) = 1
        /\ get_header(transport.wire, HEADER_CONTENT_LENGTH)[1][2]
               = to_string(Len(transport.wire.body))

(***************************************************************************)
(* C14.  As claimed: when user code calls a sender (send_text, send_json,  *)
(* send_html) on a response that has already been sent, the call is a      *)
(* no-op: the step leaves the response's headers, body and status as they  *)
(* were and transmits nothing, so that one response, the first, is all the *)
(* transport has sent.  Refuted: the locked block of a typed sender writes *)
(* Content-Type, the body and Content-Length before send() looks at        *)
(* did_send.                                                               *)
(***************************************************************************)
\* User code on thread t calls a sender in this step.
SenderCalled(t) ==
    /\ Top(t) = "user"
    /\ opsLeft' = opsLeft - 1
    /\ stack'[t] = <<L("send")>> \o stack[t]

C14_SecondTypedSendIsNoOp ==
    [][\A t \in Threads :
          (did_send /\ Sends = 1 /\ SenderCalled(t)) =>
              /\ response' = response
              /\ transport' = transport]_vars

(***************************************************************************)
(* C15.  As claimed: from its construction until set_status is called, the *)
(* wrapper's response has the status 200 OK, whatever status the           *)
(* transport's response carried.  Stated for the states in which the       *)
(* request is queued or the worker runs it through the routers and        *)
(* neither user code nor the dispatcher has written a status.  Refuted: the constructor's            *)
(* set_status(200, OK) names its parameter, not the member, so the wrapper *)
(* keeps the status that was handed over.                                  *)
(***************************************************************************)
C15_ConstructedWith200 ==
    (/\ frame.state \in {"queued", "running"}
     /\ ~history.user_ran
     /\ ~is_uri_static(request.uri)
     /\ history.unmatched = 0
     /\ history.hook = <<>>) =>
        response.status = <<200, "OK">>

(***************************************************************************)
(* What the claims about match_path speak of.                              *)
(***************************************************************************)
\* The segments of an expression or a path after normalization.
Segments(s) == split_segments(normalize(s))

IsParamSegment(es) == es # <<>> /\ es[1] = ":"

HasParamSegment(s) == \E i \in DOMAIN Segments(s) : IsParamSegment(Segments(s)[i])

HasWildcardSegment(s) == \E i \in DOMAIN Segments(s) : Segments(s)[i] = <<"*">>

\* For every :name segment of es, in order, the pair of name and the
\* url_decode of the segment of ps at the same position.
RECURSIVE ExpectedCaptures(_, _, _)
ExpectedCaptures(es, ps, i) ==
    IF i > Len(es) THEN <<>>
    ELSE (IF IsParamSegment(es[i])
          THEN << <<Substr(es[i], 2, Len(es[i])),
                    IF i <= Len(ps) THEN url_decode(ps[i]).val ELSE <<"no segment">> >> >>
          ELSE <<>>)
         \o ExpectedCaptures(es, ps, i + 1)

MatchPathReturned == call.fn = "match_path" /\ ret.done

StressId == <<"/", "s", "t", "r", "e", "s", "s", "/", ":", "i", "d">>
StressIdName ==
    <<"/", "s", "t", "r", "e", "s", "s", "/", ":", "i", "d", "/", ":", "n", "a", "m", "e">>
Stress7 == <<"/", "s", "t", "r", "e", "s", "s", "/", "7">>
Stress7Foo == <<"/", "s", "t", "r", "e", "s", "s", "/", "7", "/", "f", "o", "o">>

(***************************************************************************)
(* C16.  As claimed, for the expressions without a wildcard segment: when  *)
(* the expression has a :name segment and match_path reports a match, the  *)
(* captures are, in the order of the pattern, one pair for every :name     *)
(* segment: the name and the url_decode of the path segment at the same    *)
(* position.  Refuted: a path that is byte-equal to the expression takes   *)
(* the fast path at the head of match_path, which reports a match with no  *)
(* captures.                                                               *)
(***************************************************************************)
C16_CapturesAreTheDecodedSegments ==
    (/\ MatchPathReturned
     /\ ret.matched
     /\ HasParamSegment(call.a)
     /\ ~HasWildcardSegment(call.a)) =>
        ret.val = ExpectedCaptures(Segments(call.a), Segments(call.b), 1)

(***************************************************************************)
(* C17.  An expression with no wildcard segment matches a path only if     *)
(* both have the same number of segments after normalization.  So          *)
(* /stress/:id/:name matches /stress/7/foo (id 7, name foo) and not        *)
(* /stress/7, and /stress/:id matches /stress/7 (id 7) and not             *)
(* /stress/7/foo: whichever of the two routes is registered first, the     *)
(* two-segment request goes to the two-segment route and the one-segment   *)
(* request to the one-segment route.                                       *)
(***************************************************************************)
C17_SameNumberOfSegments ==
    MatchPathReturned =>
        /\ (ret.matched /\ ~HasWildcardSegment(call.a)) =>
               Len(Segments(call.a)) = Len(Segments(call.b))
        /\ (call.a = StressIdName /\ call.b = Stress7Foo) =>
               /\ ret.matched
               /\ ret.val = << <<(<<"i", "d">>), <<"7">> >>,
                               <<(<<"n", "a", "m", "e">>), <<"f", "o", "o">> >> >>
        /\ (call.a = StressIdName /\ call.b = Stress7) => ~ret.matched
        /\ (call.a = StressId /\ call.b = Stress7) =>
               /\ ret.matched
               /\ ret.val = << <<(<<"i", "d">>), <<"7">> >> >>
        /\ (call.a = StressId /\ call.b = Stress7Foo) => ~ret.matched

\* /stress/:id/:name was matched against /stress/7/foo.
C17_Witness ==
    /\ MatchPathReturned
    /\ call.a = StressIdName
    /\ call.b = Stress7Foo
    /\ ret.matched

(***************************************************************************)
(* C18.  For an expression that holds neither a colon nor a star,          *)
(* match_path raises nothing, reports a match exactly when the normalized  *)
(* expression and the normalized path are equal character by character,    *)
(* and then reports no captures.                                           *)
(***************************************************************************)
IsLiteral(s) == \A i \in DOMAIN s : s[i] \notin {":", "*"}

C18_LiteralMatchesIffNormalizedEqual ==
    (MatchPathReturned /\ IsLiteral(call.a)) =>
        /\ ~ret.thrown
        /\ ret.matched <=> (normalize(call.a) = normalize(call.b))
        /\ ret.matched => ret.val = <<>>

\* /stress was matched against stress/: equal only after normalization.
C18_Witness ==
    /\ MatchPathReturned
    /\ call.a = <<"/", "s", "t", "r", "e", "s", "s">>
    /\ call.b = <<"s", "t", "r", "e", "s", "s", "/">>
    /\ ret.matched
    /\ ret.val = <<>>

(***************************************************************************)
(* C19.  serve_static runs only for a URI that is classified static, and   *)
(* every path it hands to the file system is one of the registered static  *)
(* directories followed by a text in which two consecutive dots do not     *)
(* occur, the sanitize_path of the URI.  sanitize_path returns for every   *)
(* such URI, with a result free of two consecutive dots.                   *)
(***************************************************************************)
\* p is the directory root followed by a text without two consecutive dots.
UnderRoot(p, root) ==
    /\ Len(p) >= Len(root)
    /\ Substr(p, 1, Len(root)) = root
    /\ FindDotDot(Substr(p, Len(root) + 1, Len(p))) = 0

C19_NoDotDotReachesTheFileSystem ==
    /\ frame.file_paths # <<>> => is_uri_static(request.uri)
    /\ \A i \in DOMAIN frame.file_paths :
          /\ \E k \in DOMAIN static_directories :
                 /\ UnderRoot(frame.file_paths[i], static_directories[k])
                 /\ frame.file_paths[i] = static_directories[k] \o sanitize_path(request.uri)
    /\ (frame.state = "running" /\ is_uri_static(request.uri)
           /\ Top(WorkerThread) \notin {"request_handler", "serve_static"}) =>
          frame.file_paths # <<>>

\* A URI with two pairs of dots to erase was looked up.
C19_Witness ==
    /\ request.uri = <<".", ".", ".", ".", "j", "s">>
    /\ frame.file_paths = << <<"s", "t", "a", "t", "i", "c", "j", "s">> >>
    /\ transport.events = <<"send", "end">>

(***************************************************************************)
(* C20.  As claimed: for the request GET /../app.js the path looked up is  *)
(* the static directory followed by /app.js, and the answer is 404 when no *)
(* static directory holds a file under that key.                           *)
(***************************************************************************)
DotDotAppJs == <<"/", ".", ".", "/", "a", "p", "p", ".", "j", "s">>

C20_LookupKeyIsAppJs ==
    (request.uri = DotDotAppJs /\ frame.file_paths # <<>>) =>
        /\ frame.file_paths[1] = static_directories[1] \o <<"/", "a", "p", "p", ".", "j", "s">>

(***************************************************************************)
(* C20, amended.  For the request GET /../app.js the two dots are erased   *)
(* and both slashes stay: the lookup key is //app.js, the one path handed  *)
(* to the file system is the static directory followed by //app.js, and    *)
(* when no file opens under that path the response sent is 404 Not Found   *)
(* with the body 404 Not Found.                                            *)
(***************************************************************************)
C20_LookupKeyKeepsBothSlashes ==
    (request.uri = DotDotAppJs /\ frame.file_paths # <<>>) =>
        /\ sanitize_path(request.uri) = <<"/", "/", "a", "p", "p", ".", "j", "s">>
        /\ frame.file_paths =
              << static_directories[1] \o <<"/", "/", "a", "p", "p", ".", "j", "s">> >>
        /\ (frame.file_paths[1] \notin Files /\ Sends >= 1) =>
              /\ transport.wire.status = <<404, "Not Found">>
              /\ transport.wire.body = "404 Not Found"

\* GET /../app.js was answered.
C20_Witness ==
    /\ request.uri = DotDotAppJs
    /\ frame.file_paths # <<>>
    /\ transport.events = <<"send", "end">>
    /\ transport.wire.status = <<404, "Not Found">>

(***************************************************************************)
(* C21.  For every byte string s, url_decode(url_encode(s)) returns s:     *)
(* when the result of url_encode(s) is passed to url_decode, url_decode    *)
(* raises nothing and returns s.                                           *)
(***************************************************************************)
DecodedTheEncoded == call.fn = "url_decode" /\ call.of = "url_encode" /\ ret.done

C21_DecodeOfEncodeIsIdentity ==
    DecodedTheEncoded => (~ret.thrown /\ ret.val = call.b)

\* A string with a reserved byte, a control character and a byte above
\* 127 went through url_encode and url_decode.
C21_Witness ==
    /\ DecodedTheEncoded
    /\ call.b = <<"/", Chr(10), Chr(255)>>
    /\ call.a = <<"%", "2", "F", "%", "0", "A", "%", "F", "F">>
    /\ ret.val = call.b

(***************************************************************************)
(* C22.  As claimed: for every string s made only of unreserved characters *)
(* and well-formed escapes (a percent sign and two hexadecimal digits),    *)
(* url_encode(url_decode(s)) returns s.  Refuted: an escape of an          *)
(* unreserved character (%41) and an escape in lower case (%2f) are        *)
(* well-formed, and url_encode writes A and %2F for them.                  *)
(***************************************************************************)
EncodedTheDecoded == call.fn = "url_encode" /\ call.of = "url_decode" /\ ret.done

\* s from position i on is unreserved characters and well-formed escapes.
RECURSIVE WellFormedFrom(_, _)
WellFormedFrom(s, i) ==
    IF i > Len(s) THEN TRUE
    ELSE IF s[i] = "%"
    THEN /\ i + 2 <= Len(s)
         /\ IsHexDigit(s[i + 1])
         /\ IsHexDigit(s[i + 2])
         /\ WellFormedFrom(s, i + 3)
    ELSE IsUnreserved(s[i]) /\ WellFormedFrom(s, i + 1)

WellFormed(s) == WellFormedFrom(s, 1)

C22_EncodeOfDecodeIsIdentity ==
    (EncodedTheDecoded /\ WellFormed(call.b)) => ret.val = call.b

(***************************************************************************)
(* C22, amended.  For every string s made only of unreserved characters    *)
(* and of escapes, with upper case hexadecimal digits, of bytes that are   *)
(* not unreserved characters, url_decode(s) raises nothing and             *)
(* url_encode(url_decode(s)) returns s.                                    *)
(***************************************************************************)
\* s from position i on is unreserved characters and the escapes that
\* url_encode writes.
RECURSIVE CanonicalFrom(_, _)
CanonicalFrom(s, i) ==
    IF i > Len(s) THEN TRUE
    ELSE IF s[i] = "%"
    THEN /\ i + 2 <= Len(s)
         /\ \E n \in 0..255 :
                /\ <<s[i + 1], s[i + 2]>> = <<UpperHexDigit(n \div 16), UpperHexDigit(n % 16)>>
                /\ ~IsUnreserved(Chr(n))
         /\ CanonicalFrom(s, i + 3)
    ELSE IsUnreserved(s[i]) /\ CanonicalFrom(s, i + 1)

Canonical(s) == CanonicalFrom(s, 1)

C22_EncodeOfDecodeIsIdentityOnCanonical ==
    /\ (call.fn = "url_decode" /\ call.of = "" /\ ret.done /\ Canonical(call.a)) =>
          ~ret.thrown
    /\ (EncodedTheDecoded /\ Canonical(call.b)) => ret.val = call.b

\* a%2Fz went through url_decode and url_encode.
C22_Witness ==
    /\ EncodedTheDecoded
    /\ call.b = <<"a", "%", "2", "F", "z">>
    /\ call.a = <<"a", "/", "z">>
    /\ ret.val = call.b

(***************************************************************************)
(* C23.  For every request, set_path_params is called exactly once, and    *)
(* the caller is the route that first matched the request: no other route  *)
(* writes the path params, and when a route's handlers run that route has  *)
(* written them once.  Refuted: web_route::match stores the captures of    *)
(* every route whose path expression matches, whatever its method.         *)
(***************************************************************************)
C23_OnlyTheFirstMatchingRouteSetsParams ==
    /\ Len(history.set_path_params) <= 1
    /\ \A i \in DOMAIN history.set_path_params :
          IsFirstMatchingRoute(history.set_path_params[i])
    /\ history.route # <<>> => history.set_path_params = <<history.route[1]>>

(***************************************************************************)
(* C24.  The router never renders a response itself: no step of            *)
(* web_router::handle_request (its middleware loop, its loop over the      *)
(* routes, the handler chain of the route) changes the status, the headers *)
(* or the body, nor the latches, nor what the transport saw; and when a    *)
(* middleware or a handler raises an error, the error that reaches the     *)
(* router's caller is that same error and the response is as the user code *)
(* left it.                                                                *)
(***************************************************************************)
RouterLabels ==
    {"handle_request", "middleware", "middleware_result", "match", "handler",
     "handler_result"}

\* The step in which an error raised by a middleware or a handler goes
\* through the router's catch block to request_handler's.
RaisedThroughRouter ==
    /\ Top(WorkerThread) = "user"
    /\ site.kind \in {"middleware", "handler"}
    /\ stack'[WorkerThread] = <<L("catch")>>

LastHandler == history.handler[Len(history.handler)]

C25_ChainInOrderUntilFirstNonContinue ==
    /\ \A i \in DOMAIN history.handler :
          /\ history.handler[i].index = i
          /\ <<history.handler[i].router, history.handler[i].route>> = history.route[1]
          /\ i < Len(history.handler) => history.handler[i].result = CONTINUE
    /\ Len(history.route_result) <= 1
    /\ history.route_result # <<>> =>
          /\ history.handler # <<>>
          /\ LastHandler.result \in {CONTINUE, EXIT, ERROR}
          /\ history.route_result[1] =
                IF LastHandler.result = ERROR THEN ERROR ELSE EXIT
          /\ LastHandler.result = CONTINUE =>
                Len(history.handler) =
                    routers[history.route[1][1]].routes[history.route[1][2]].handlers

\* Both handlers of GET /stress/:id were invoked in order, the first
\* returned CONTINUE, the second ERROR, and the route returned ERROR.
C25_Witness ==
    /\ history.route = << <<1, 3>> >>
    /\ Len(history.handler) = 2
    /\ history.handler[1].result = CONTINUE
    /\ history.handler[2].result = ERROR
    /\ history.route_result = <<ERROR>>

(***************************************************************************)
(* C26.  If a middleware or a route handler returns a value outside        *)
(* CONTINUE, EXIT, ERROR, no further middleware or handler is invoked, the *)
(* error raised is a native error and not a web_exception, the hook        *)
(* receives a 500 Internal Server Error error, and send then end follow:   *)
(* once the worker has left request_handler the transport has sent once    *)
(* and ended once.  Refuted: a registered hook that raises leaves          *)
(* request_handler before its send and end (see C9).                       *)
(***************************************************************************)
InvalidReturned == frame.thrower = "invalid"

\* The middleware or handler that was invoked last.
LastInvoked ==
    IF history.handler # <<>> THEN LastHandler ELSE LastMiddleware

C26_InvalidExitCodeIsA500 ==
    InvalidReturned =>
        /\ LastInvoked.result = INVALID
        /\ history.unmatched = 0
        /\ Top(WorkerThread) = "catch" =>
              (frame.e.kind = "std_exception" /\ history.hook = <<>>)
        /\ Top(WorkerThread) # "catch" =>
              /\ Len(history.hook) = 1
              /\ history.hook[1].cause.kind = "std_exception"
              /\ history.hook[1].e = web_exception(500, "Internal Server Error")
        /\ (LeftRequestHandler /\ Quiescent) =>
              transport.events \in {<<"send", "end">>}

(***************************************************************************)
(* C27.  If the transport's send primitive raises an error, send() does    *)
(* not propagate it: the caller goes on as after a send that succeeded,    *)
(* and no catch block of the dispatcher runs because of it.  end() was     *)
(* invoked before send() returned, so the transport's end has run, and it  *)
(* runs at most once; the sent latch stays set and the transport's send    *)
(* runs at most once.                                                      *)
(***************************************************************************)
\* The thread whose send() reached the transport.
Sender == history.sent_by[1]

\* The transport's send has raised and the sender is out of the end()
\* that the catch block of send() calls, or of a later one.
SendRaisedAndReturned ==
    /\ history.send_raised
    /\ Top(Sender) \notin {"end", "end_transport"}

C27_RaisingSendEndsTheResponse ==
    /\ Sends <= 1
    /\ Ends <= 1
    /\ history.send_raised => (did_send /\ Sends = 1)
    /\ SendRaisedAndReturned => (did_end /\ Ends = 1)
    /\ (history.send_raised /\ history.raised = NoException /\ frame.thrower = "") =>
          /\ frame.state # "escaped"
          /\ \A i \in DOMAIN history.hook : history.hook[i].from # "request_handler"

\* A middleware called send_text, the transport's send raised, and the
\* middleware runs on with the response ended.
C27_Witness ==
    /\ history.send_raised
    /\ Sender = WorkerThread
    /\ Top(WorkerThread) = "user"
    /\ site.kind = "middleware"
    /\ transport.events = <<"send", "end">>

(***************************************************************************)
(* C28.  If enqueueing the request task on the worker pool raises an       *)
(* error, on_request_received invokes the unhandled-exception hook exactly *)
(* once, with the raised error when it is a web_exception and with a 500   *)
(* web_exception otherwise, then performs send and end on the response:    *)
(* once on_request_received is over the transport has sent and ended; and  *)
(* request_handler is never run for that request.  Refuted: a registered   *)
(* hook that raises leaves on_request_received before its send and end     *)
(* (see C9).                                                               *)
(***************************************************************************)
EnqueueRaised == frame.state \in {"enqueue_failed", "enqueue_escaped"}

C28_FailedEnqueueIsAnswered ==
    EnqueueRaised =>
        /\ Len(history.hook) = 1
        /\ history.hook[1].from = "on_request_received"
        /\ history.hook[1].cause \in EnqueueOutcomes \ {NoException}
        /\ history.hook[1].e =
              IF history.hook[1].cause.kind = "web_exception"
              THEN history.hook[1].cause
              ELSE web_exception(500, "Internal Server Error")
        /\ history.enqueued = 0
        /\ history.started = 0
        /\ tasks = <<>>
        /\ stack[TransportThread] = <<>> => transport.events = <<"send", "end">>

(***************************************************************************)
(* C29.  Whether a request is treated as a static asset depends only on    *)
(* the path part of its URI: request_handler hands the request to          *)
(* serve_static when the text after the last dot of the URI with the query *)
(* stripped is a static extension, and to the routers otherwise, so two    *)
(* URIs with the same path are dispatched the same way.  Refuted:          *)
(* request_handler classifies the whole URI, query included.               *)
(***************************************************************************)
\* The classification of the path part of the uri.
StaticByPath(uri) == get_file_extension_from_uri(get_path(uri)) \in static_extensions

\* request_handler has taken the branch to serve_static, to the routers.
DispatchedToServeStatic == Top(WorkerThread) = "serve_static"
DispatchedToRouters == Top(WorkerThread) = "handle_request" /\ frame.router = 1

C29_StaticDependsOnPathOnly ==
    /\ DispatchedToServeStatic => StaticByPath(request.uri)
    /\ DispatchedToRouters => ~StaticByPath(request.uri)

(***************************************************************************)
(* C30.  serve_static serves the file from the first static root, in       *)
(* registration order, under which the sanitized path opens: the response  *)
(* sent is 200 OK with the content of that file as body and the            *)
(* Content-Type of the extension (application/octet-stream when the        *)
(* extension has none); if the path opens under no root, or no root is     *)
(* registered, the response sent is 404 Not Found with the body            *)
(* 404 Not Found.  (The file is read without error.)                       *)
(***************************************************************************)
\* The roots, by index, under which the sanitized path of the request opens.
OpeningRoots ==
    {k \in DOMAIN static_directories :
        static_directories[k] \o sanitize_path(request.uri) \in Files}

FirstOpeningRoot == CHOOSE k \in OpeningRoots : \A j \in OpeningRoots : k <= j

\* serve_static has answered a static request without a read error.
StaticAnswered ==
    /\ is_uri_static(request.uri)
    /\ frame.state = "returned"
    /\ history.hook = <<>>
    /\ Sends = 1

C31_ParamSegmentIsNotEmpty ==
    (MatchPathReturned /\ ret.matched /\ ~HasWildcardSegment(call.a)) =>
        \A i \in DOMAIN Segments(call.a) :
            IsParamSegment(Segments(call.a)[i]) =>
                /\ i <= Len(Segments(call.b))
                /\ Segments(call.b)[i] # <<>>

(***************************************************************************)
(* C32.  When matching reaches a star segment of the expression (every     *)
(* segment before it matched, and either a path segment is left or the     *)
(* star is the last segment of the expression), match_path reports a match *)
(* and the last capture is named star, its value the url_decode of the     *)
(* remaining path segments joined with slashes, the empty text when no     *)
(* segment remains; and an expression with more segments than the path     *)
(* matches only if matching reaches a star.  Refuted: for an empty         *)
(* remainder match_path reports the match without a capture named star.    *)
(***************************************************************************)
\* The position of the first star segment of the segments es, 0 if none.
FirstWildcard(es) ==
    IF \E i \in DOMAIN es : es[i] = <<"*">>
    THEN CHOOSE i \in DOMAIN es : es[i] = <<"*">> /\ \A j \in 1..(i - 1) : es[j] # <<"*">>
    ELSE 0

\* Matching the segments es against ps reaches the star at position w.
ReachesWildcard(es, ps) ==
    LET w == FirstWildcard(es)
    IN  /\ w > 0
        /\ Len(ps) >= w - 1
        /\ \A i \in 1..(w - 1) : IsParamSegment(es[i]) \/ es[i] = ps[i]
        /\ Len(ps) >= w \/ w = Len(es)

C32_WildcardCapturesTheRemainder ==
    MatchPathReturned =>
        LET es == Segments(call.a)
            ps == Segments(call.b)
        IN  /\ ReachesWildcard(es, ps) =>
                  /\ ~ret.thrown
                  /\ ret.matched
                  /\ ret.val # <<>>
                  /\ ret.val[Len(ret.val)] =
                        << <<"*">>, url_decode(JoinFrom(ps, FirstWildcard(es), <<>>)).val >>
            /\ (Len(es) > Len(ps) /\ ~ReachesWildcard(es, ps)) => ~ret.matched

(***************************************************************************)
(* C33.  send() never adds a Content-Type header.  The step of send() that *)
(* writes the response leaves the status, the body and every existing      *)
(* header as they are and appends only Connection: close, when the         *)
(* response has no Connection header, and Content-Length with the length   *)
(* of the body, when it has no Content-Length header; so a response for    *)
(* which nothing set a Content-Type is transmitted without one.            *)
(***************************************************************************)
\* A thread runs the block of send() under modify_headers_mutex.
SendDefaultsStep ==
    \E t \in Threads : Top(t) = "send_defaults" /\ stack'[t] # stack[t]

\* The headers send() may append to the response r.
DefaultsFor(r) ==
    (IF get_header(r, HEADER_CONNECTION) = <<>>
     THEN << <<HEADER_CONNECTION, "close">> >> ELSE <<>>)
    \o (IF get_header(r, HEADER_CONTENT_LENGTH) = <<>>
        THEN << <<HEADER_CONTENT_LENGTH, to_string(Len(r.body))>> >> ELSE <<>>)

C34_TasksStartInEnqueueOrder ==
    /\ Len(pool.started) <= Len(pool.enqueued)
    /\ \A i \in DOMAIN pool.started : pool.started[i] = pool.enqueued[i]

\* Request 1 was enqueued before request 2, started before it, and
\* finished after it.
C34_Witness ==
    /\ pool.enqueued = <<1, 2>>
    /\ pool.started = <<1, 2>>
    /\ pool.finished = <<2, 1>>

(***************************************************************************)
(* C35.  Whenever a route's handler chain is invoked for a request, the    *)
(* request's path params are the captures of that route's own expression   *)
(* against the request path, whatever earlier routes with a matching path  *)
(* and another method wrote before: from the invocation of the chain on,   *)
(* the params are those captures.                                          *)
(***************************************************************************)
\* The route whose handler chain was invoked.
HandledRoute == routers[history.route[1][1]].routes[history.route[1][2]]

C35_HandlersSeeTheirOwnCaptures ==
    history.route # <<>> =>
        /\ request.path_params =
              match_path(HandledRoute.expression, get_path(request.uri)).params
        /\ history.set_path_params[Len(history.set_path_params)] = history.route[1]

\* POST /stress/post: the route GET /stress/:id wrote id = post, then the
\* route POST /stress/post wrote its own empty captures, and its handler
\* runs with those.
C35_Witness ==
    /\ request.method = "POST"
    /\ history.route = << <<1, 4>> >>
    /\ history.set_path_params = << <<1, 3>>, <<1, 4>> >>
    /\ request.path_params = <<>>
    /\ Top(WorkerThread) = "user"
    /\ site.kind = "handler"

(***************************************************************************)
(* C36.  A router's middleware chain runs for every request that reaches   *)
(* the router, whether or not one of its routes matches: when a route of   *)
(* the k-th router handles the request, every middleware of the routers 1  *)
(* to k has been invoked and has returned CONTINUE; when the dispatcher    *)
(* has gone on to a later router, the whole chain of every earlier router  *)
(* was invoked; and when a middleware has returned EXIT or ERROR, no route *)
(* of any router is handled.                                               *)
(***************************************************************************)
WholeChainContinued(r) ==
    /\ Len(InvokedMiddleware(r)) = routers[r].middlewares
    /\ \A i \in DOMAIN InvokedMiddleware(r) : InvokedMiddleware(r)[i].result = CONTINUE

C36_MiddlewareOfEveryRouterReached ==
    /\ history.route # <<>> =>
          \A r \in 1..history.route[1][1] : WholeChainContinued(r)
    /\ \A r \in DOMAIN routers :
          (frame.router > r /\ frame.state = "running") => WholeChainContinued(r)
    /\ MiddlewareStopped => history.route = <<>>

\* PUT /stress/7 is handled by a route of the second router; no route of
\* the first router matched, and its middleware ran all the same.
C36_Witness ==
    /\ request.method = "PUT"
    /\ history.route = << <<2, 2>> >>
    /\ Len(InvokedMiddleware(1)) = 1
    /\ Len(InvokedMiddleware(2)) = 2
    /\ \A rk \in MatchingRoutes : rk[1] = 2

(***************************************************************************)
(* C37.  For a request whose URI is classified static, no router           *)
(* middleware, no route and no unmatched-route handler, registered or      *)
(* default, is ever invoked, also when no static root contains the file:   *)
(* the response sent is then the 404 Not Found of serve_static.            *)
(***************************************************************************)
\* No static root holds the file of the request.
NoRootHoldsTheFile ==
    \A k \in DOMAIN static_directories :
        static_directories[k] \o sanitize_path(request.uri) \notin Files

ErrorReturned ==
    /\ history.middleware # <<>> \/ history.handler # <<>>
    /\ LastInvoked.result = ERROR

C39_MatchPathIsTotal ==
    MatchPathReturned => ~ret.thrown

====
